---------------------------- MODULE Spec2Model ----------------------------
(***************************************************************************)
(* A model of the SQL-like query surface of the API data playground        *)
(* (src/src/components/SqlQueryEditor.tsx).                                *)
(*                                                                         *)
(* JavaScript strings are sequences of one-character strings, so that the  *)
(* regular expressions of the source act on the query text character by    *)
(* character.  JSON values are records                                     *)
(*     [t |-> type tag, n |-> number, s |-> string, o |-> members,         *)
(*      a |-> elements]                                                    *)
(* and a JSON object is the sequence of its members [k |-> key, v |-> val] *)
(* in insertion order.                                                     *)
(***************************************************************************)
EXTENDS Integers, Sequences, FiniteSets, TLC

(***************************************************************************)
(* Bounds of the model.                                                    *)
(***************************************************************************)
MaxRows == 3

(***************************************************************************)
(* Characters and character classes (ECMAScript \s, \w, \d and `.`).       *)
(***************************************************************************)
LowerCase ==
  << "a","b","c","d","e","f","g","h","i","j","k","l","m",
     "n","o","p","q","r","s","t","u","v","w","x","y","z" >>

UpperCase ==
  << "A","B","C","D","E","F","G","H","I","J","K","L","M",
     "N","O","P","Q","R","S","T","U","V","W","X","Y","Z" >>

Digits == << "0","1","2","3","4","5","6","7","8","9" >>

Range(f) == { f[i] : i \in DOMAIN f }

LowerSet == Range(LowerCase)
UpperSet == Range(UpperCase)
DigitSet == Range(Digits)

IndexOf(c, seq) == CHOOSE i \in DOMAIN seq : seq[i] = c

upperOf == [ c \in LowerSet |-> UpperCase[IndexOf(c, LowerCase)] ]
lowerOf == [ c \in UpperSet |-> LowerCase[IndexOf(c, UpperCase)] ]
digitOf == [ c \in DigitSet |-> IndexOf(c, Digits) - 1 ]

UpperChar(c) == IF c \in LowerSet THEN upperOf[c] ELSE c
LowerChar(c) == IF c \in UpperSet THEN lowerOf[c] ELSE c

IsSpace(c) == c \in { " ", "\t", "\n", "\r" }
IsWord(c)  == c \in LowerSet \/ c \in UpperSet \/ c \in DigitSet \/ c = "_"
IsDigit(c) == c \in DigitSet
IsDot(c)   == c \notin { "\n", "\r" }
IsQuote(c) == c \in { "'", "\"" }

(***************************************************************************)
(* String.prototype functions used by the source.                          *)
(***************************************************************************)
toUpperCase(s) == [ i \in 1..Len(s) |-> UpperChar(s[i]) ]
toLowerCase(s) == [ i \in 1..Len(s) |-> LowerChar(s[i]) ]

\* The length of the longest run of characters of class cls that starts at
\* position i of s (0 when s[i] is not of the class or i is past the end).
InClass(cls, c) ==
  CASE cls = "space"    -> IsSpace(c)
    [] cls = "word"     -> IsWord(c)
    [] cls = "digit"    -> IsDigit(c)
    [] cls = "dot"      -> IsDot(c)
    [] cls = "notquote" -> ~IsQuote(c)

RECURSIVE RunLen(_, _, _)
RunLen(cls, s, i) ==
  IF i > Len(s) \/ ~InClass(cls, s[i]) THEN 0 ELSE 1 + RunLen(cls, s, i + 1)

Min(S) == CHOOSE x \in S : \A y \in S : x <= y
Max(S) == CHOOSE x \in S : \A y \in S : x >= y

trim(s) ==
  LET keep == { i \in 1..Len(s) : ~IsSpace(s[i]) }
  IN  IF keep = {} THEN << >> ELSE SubSeq(s, Min(keep), Max(keep))

startsWith(s, p) == Len(p) <= Len(s) /\ SubSeq(s, 1, Len(p)) = p

\* s.split(',') : the pieces of s between commas, at least one piece.
split(s) ==
  LET commas == { i \in 1..Len(s) : s[i] = "," }
      cuts   == commas \cup { 0, Len(s) + 1 }
      next(i) == Min({ j \in cuts : j > i })
      RECURSIVE pieces(_)
      pieces(i) ==
        IF i > Len(s) THEN << >>
        ELSE << SubSeq(s, i + 1, next(i) - 1) >> \o pieces(next(i))
  IN  pieces(0)

\* The keyword kw (upper case) stands at position i of s, in any letter case
\* (the /i flag) or exactly (no flag).
KeywordAtI(s, i, kw) ==
  /\ i >= 1
  /\ i + Len(kw) - 1 <= Len(s)
  /\ \A j \in 1..Len(kw) : UpperChar(s[i + j - 1]) = kw[j]

KeywordAt(s, i, kw) ==
  /\ i >= 1
  /\ i + Len(kw) - 1 <= Len(s)
  /\ \A j \in 1..Len(kw) : s[i + j - 1] = kw[j]


(***************************************************************************)
(* The regular expressions of executeQuery and evaluateWhereClause.  Each  *)
(* operator returns what String.prototype.match returns: whether the       *)
(* pattern matches (at its leftmost position) and the captured groups.     *)
(***************************************************************************)
kwSELECT == << "S","E","L","E","C","T" >>
kwFROM   == << "F","R","O","M" >>
kwWHERE  == << "W","H","E","R","E" >>
kwORDER  == << "O","R","D","E","R" >>
kwGROUP  == << "G","R","O","U","P" >>
kwBY     == << "B","Y" >>
kwLIMIT  == << "L","I","M","I","T" >>
kwASC    == << "A","S","C" >>
kwDESC   == << "D","E","S","C" >>
kwLIKE   == << "L","I","K","E" >>

NoMatch == [ found |-> FALSE, g1 |-> << >>, g2 |-> << >> ]
Match(group1, group2) == [ found |-> TRUE, g1 |-> group1, g2 |-> group2 ]

\* The position after the white space that starts at position i of s.
SkipSpace(s, i) == i + RunLen("space", s, i)

\* \s+KW matches at position e of s.
OneWordAtI(s, e, kw) ==
  /\ e <= Len(s)
  /\ IsSpace(s[e])
  /\ KeywordAtI(s, SkipSpace(s, e), kw)

\* \s+KW1\s+KW2 matches at position e of s.
TwoWordsAtI(s, e, kw1, kw2) ==
  /\ OneWordAtI(s, e, kw1)
  /\ OneWordAtI(s, SkipSpace(s, e) + Len(kw1), kw2)

\* (?:\s+ORDER\s+BY|\s+GROUP\s+BY|\s+LIMIT|$) matches at position e of s.
WhereEndAt(s, e) ==
  \/ e = Len(s) + 1
  \/ TwoWordsAtI(s, e, kwORDER, kwBY)
  \/ TwoWordsAtI(s, e, kwGROUP, kwBY)
  \/ OneWordAtI(s, e, kwLIMIT)

\* \s+FROM matches at position e of s.
SelectEndAt(s, e) == OneWordAtI(s, e, kwFROM)

\* The end of a lazy capture, for the pattern named rx.
EndAt(rx, s, e) ==
  CASE rx = "where"  -> WhereEndAt(s, e)
    [] rx = "select" -> SelectEndAt(s, e)

\* (.+?) followed by the end of rx, the capture reaching at least to e - 1:
\* the end of the shortest capture (the position after it), 0 when there is
\* none.
LazyCaptureEnd(rx, s, e) ==
  LET Shortest(ends) == IF ends = { } THEN 0 ELSE Min(ends)
  IN  Shortest({ x \in e..(e - 1 + RunLen("dot", s, e - 1)) : EndAt(rx, s, x) })

\* KW\s+(.+?)End with k characters of white space given to \s+ (p is the
\* position after KW): \s+ is greedy and gives characters back to the
\* capture only when the longer run of white space leads nowhere.
RECURSIVE LazySpaces(_, _, _, _)
LazySpaces(rx, s, p, k) ==
  LET Captured(e) ==
        IF e # 0 THEN Match(SubSeq(s, p + k, e - 1), << >>)
        ELSE LazySpaces(rx, s, p, k - 1)
  IN  IF k < 1 THEN NoMatch
      ELSE Captured(LazyCaptureEnd(rx, s, p + k + 1))

LazyMatchAt(rx, s, i, kw) ==
  IF ~KeywordAtI(s, i, kw) THEN NoMatch
  ELSE LazySpaces(rx, s, i + Len(kw), RunLen("space", s, i + Len(kw)))

\* sql.match(/WHERE\s+(.+?)(?:\s+ORDER\s+BY|\s+GROUP\s+BY|\s+LIMIT|$)/i)
\* tried at position i
whereMatchAt(s, i) == LazyMatchAt("where", s, i, kwWHERE)

\* sql.match(/SELECT\s+(.+?)\s+FROM/i) tried at position i
selectMatchAt(s, i) == LazyMatchAt("select", s, i, kwSELECT)

\* sql.match(/ORDER\s+BY\s+(\w+)(?:\s+(ASC|DESC))?/i)
orderMatchAt(s, i) ==
  LET Direction(d) ==
        IF KeywordAtI(s, d, kwASC) THEN SubSeq(s, d, d + 2)
        ELSE IF KeywordAtI(s, d, kwDESC) THEN SubSeq(s, d, d + 3)
        ELSE << >>
      Column(c, z) ==
        IF z = c THEN NoMatch
        ELSE Match(SubSeq(s, c, z - 1),
                   IF z <= Len(s) /\ IsSpace(s[z])
                     THEN Direction(SkipSpace(s, z)) ELSE << >>)
      AfterBy(c) == Column(c, c + RunLen("word", s, c))
      By(b) ==
        IF KeywordAtI(s, b, kwBY) /\ b + 2 <= Len(s) /\ IsSpace(s[b + 2])
          THEN AfterBy(SkipSpace(s, b + 2))
        ELSE NoMatch
  IN  IF KeywordAtI(s, i, kwORDER) /\ i + 5 <= Len(s) /\ IsSpace(s[i + 5])
        THEN By(SkipSpace(s, i + 5))
      ELSE NoMatch

\* sql.match(/LIMIT\s+(\d+)/i)
limitMatchAt(s, i) ==
  LET Number(d, z) ==
        IF z = d THEN NoMatch ELSE Match(SubSeq(s, d, z - 1), << >>)
      AfterLimit(d) == Number(d, d + RunLen("digit", s, d))
  IN  IF KeywordAtI(s, i, kwLIMIT) /\ i + 5 <= Len(s) /\ IsSpace(s[i + 5])
        THEN AfterLimit(SkipSpace(s, i + 5))
      ELSE NoMatch

\* clause.match(/(\w+)\s*=\s*['"]?([^'"]*)['"]?/)
eqMatchAt(s, i) ==
  LET Value(v) == SubSeq(s, v, v + RunLen("notquote", s, v) - 1)
      AfterEq(q) ==
        Value(IF q <= Len(s) /\ IsQuote(s[q]) THEN q + 1 ELSE q)
      Eq(w, e) ==
        IF e <= Len(s) /\ s[e] = "="
          THEN Match(SubSeq(s, i, w - 1), AfterEq(SkipSpace(s, e + 1)))
        ELSE NoMatch
      Word(w) == IF w = i THEN NoMatch ELSE Eq(w, SkipSpace(s, w))
  IN  Word(i + RunLen("word", s, i))

\* clause.match(/(\w+)\s+LIKE\s+['"]([^'"]*)['"]/)
likeMatchAt(s, i) ==
  LET Pattern(w, q, z) ==
        IF z <= Len(s) /\ IsQuote(s[z])
          THEN Match(SubSeq(s, i, w - 1), SubSeq(s, q + 1, z - 1))
        ELSE NoMatch
      Quote(w, q) ==
        IF q <= Len(s) /\ IsQuote(s[q])
          THEN Pattern(w, q, q + 1 + RunLen("notquote", s, q + 1))
        ELSE NoMatch
      Like(w, l) ==
        IF l > w /\ KeywordAt(s, l, kwLIKE)
           /\ l + 4 <= Len(s) /\ IsSpace(s[l + 4])
          THEN Quote(w, SkipSpace(s, l + 4))
        ELSE NoMatch
      Word(w) == IF w = i THEN NoMatch ELSE Like(w, SkipSpace(s, w))
  IN  Word(i + RunLen("word", s, i))
\* The pattern named rx tried at position i of s.
MatchAt(rx, s, i) ==
  CASE rx = "where"  -> whereMatchAt(s, i)
    [] rx = "select" -> selectMatchAt(s, i)
    [] rx = "order"  -> orderMatchAt(s, i)
    [] rx = "limit"  -> limitMatchAt(s, i)
    [] rx = "eq"     -> eqMatchAt(s, i)
    [] rx = "like"   -> likeMatchAt(s, i)

\* String.prototype.match: the match at the leftmost position, from i on.
Leftmost(rx, s, i) ==
  LET First(hits) == IF hits = { } THEN NoMatch ELSE MatchAt(rx, s, Min(hits))
  IN  First({ j \in i..Len(s) : MatchAt(rx, s, j).found })

whereMatch(sql)   == Leftmost("where", sql, 1)
selectMatch(sql)  == Leftmost("select", sql, 1)
orderMatch(sql)   == Leftmost("order", sql, 1)
limitMatch(sql)   == Leftmost("limit", sql, 1)
eqMatch(clause)   == Leftmost("eq", clause, 1)
likeMatch(clause) == Leftmost("like", clause, 1)

(***************************************************************************)
(* JavaScript values.                                                      *)
(***************************************************************************)
Null      == [ t |-> "null",      n |-> 0, s |-> << >>, o |-> << >>, a |-> << >> ]
Undefined == [ t |-> "undefined", n |-> 0, s |-> << >>, o |-> << >>, a |-> << >> ]
\* What every object inherits from Object.prototype (constructor, toString,
\* ...): a built-in function, s its name.
Function(name) ==
  [ t |-> "function", n |-> 0, s |-> name, o |-> << >>, a |-> << >> ]
Num(i)    == [ t |-> "number",    n |-> i, s |-> << >>, o |-> << >>, a |-> << >> ]
Str(cs)   == [ t |-> "string",    n |-> 0, s |-> cs,    o |-> << >>, a |-> << >> ]
Bool(b)   == [ t |-> "boolean",   n |-> IF b THEN 1 ELSE 0,
               s |-> << >>, o |-> << >>, a |-> << >> ]
Obj(ms)   == [ t |-> "object",    n |-> 0, s |-> << >>, o |-> ms,    a |-> << >> ]
Arr(es)   == [ t |-> "array",     n |-> 0, s |-> << >>, o |-> << >>, a |-> es ]

\* typeof v
typeof(v) == IF v.t \in { "null", "array" } THEN "object" ELSE v.t

\* v == null
IsNullish(v) == v.t \in { "null", "undefined" }

\* The names an object literal inherits from Object.prototype.
ObjectPrototypeKeys ==
  { << "c","o","n","s","t","r","u","c","t","o","r" >>,
    << "t","o","S","t","r","i","n","g" >>,
    << "v","a","l","u","e","O","f" >>,
    << "h","a","s","O","w","n","P","r","o","p","e","r","t","y" >> }

\* The members of an object are [k |-> key, v |-> value], keys distinct.
Keys(ms) == { ms[i].k : i \in DOMAIN ms }
hasOwnProperty(ms, key) == key \in Keys(ms)

\* key in obj
In(key, ms) == hasOwnProperty(ms, key) \/ key \in ObjectPrototypeKeys

\* obj[key]
Get(ms, key) ==
  IF hasOwnProperty(ms, key)
    THEN ms[CHOOSE i \in DOMAIN ms : ms[i].k = key].v
  ELSE IF key \in ObjectPrototypeKeys
    THEN Function(IF key = << "c","o","n","s","t","r","u","c","t","o","r" >>
                    THEN << "O","b","j","e","c","t" >> ELSE key)
  ELSE Undefined

\* obj[key] = value : an existing key keeps its place, a new one is appended.
Put(ms, key, value) ==
  IF hasOwnProperty(ms, key)
    THEN [ i \in DOMAIN ms |->
             IF ms[i].k = key THEN [ k |-> key, v |-> value ] ELSE ms[i] ]
  ELSE Append(ms, [ k |-> key, v |-> value ])

\* Object.assign(target, source)
RECURSIVE ObjectAssign(_, _)
ObjectAssign(target, source) ==
  IF source = << >> THEN target
  ELSE ObjectAssign(Put(target, Head(source).k, Head(source).v), Tail(source))

(***************************************************************************)
(* Number and string conversions.                                          *)
(***************************************************************************)
RECURSIVE NatToStr(_)
NatToStr(n) ==
  IF n < 10 THEN << Digits[n + 1] >>
  ELSE Append(NatToStr(n \div 10), Digits[(n % 10) + 1])

\* String(n) for an integer n
NumToStr(n) == IF n < 0 THEN << "-" >> \o NatToStr(-n) ELSE NatToStr(n)

\* The number a run of decimal digits denotes.
RECURSIVE DigitsToNat(_)
DigitsToNat(ds) ==
  IF ds = << >> THEN 0
  ELSE 10 * DigitsToNat(SubSeq(ds, 1, Len(ds) - 1)) + digitOf[ds[Len(ds)]]

\* parseInt(digits) of LIMIT's (\d+)
parseInt(ds) == DigitsToNat(ds)

RECURSIVE Pow10(_)
Pow10(k) == IF k = 0 THEN 1 ELSE 10 * Pow10(k - 1)

NaN == [ nan |-> TRUE, int |-> FALSE, val |-> 0 ]

\* parseFloat(str): skips leading white space, then reads the longest prefix
\* [+-]digits[.digits][e[+-]digits].  The result is NaN, an integer (val), or
\* a number that is no integer (int = FALSE), which equals no integer.
parseFloat(str) ==
  LET Scaled(mant, sc) ==
        IF sc >= 0
          THEN [ nan |-> FALSE, int |-> TRUE, val |-> mant * Pow10(sc) ]
        ELSE IF mant % Pow10(-sc) = 0
          THEN [ nan |-> FALSE, int |-> TRUE, val |-> mant \div Pow10(-sc) ]
        ELSE [ nan |-> FALSE, int |-> FALSE, val |-> 0 ]
      \* the exponent's digits start at x, after an optional sign
      ExpDigits(mant, fl, x, neg) ==
        IF RunLen("digit", str, x) = 0 THEN Scaled(mant, -fl)
        ELSE Scaled(mant,
               (IF neg THEN -1 ELSE 1)
               * DigitsToNat(SubSeq(str, x, x + RunLen("digit", str, x) - 1))
               - fl)
      \* m is the position after the mantissa
      Exponent(mant, fl, m) ==
        IF m <= Len(str) /\ str[m] \in { "e", "E" }
          THEN IF m + 1 <= Len(str) /\ str[m + 1] \in { "+", "-" }
                 THEN ExpDigits(mant, fl, m + 2, str[m + 1] = "-")
               ELSE ExpDigits(mant, fl, m + 1, FALSE)
        ELSE Scaled(mant, -fl)
      \* il integer digits from i0, then fl fraction digits after a dot
      Mantissa(sign, i0, il, fl, dot) ==
        IF il + fl = 0 THEN NaN
        ELSE Exponent(sign * DigitsToNat(SubSeq(str, i0, i0 + il - 1)
                                         \o SubSeq(str, i0 + il + 1, i0 + il + fl)),
                      fl,
                      i0 + il + (IF dot THEN 1 + fl ELSE 0))
      Fraction(sign, i0, il) ==
        IF i0 + il <= Len(str) /\ str[i0 + il] = "."
          THEN Mantissa(sign, i0, il, RunLen("digit", str, i0 + il + 1), TRUE)
        ELSE Mantissa(sign, i0, il, 0, FALSE)
      Integer(sign, i0) == Fraction(sign, i0, RunLen("digit", str, i0))
      Signed(s0) ==
        IF s0 <= Len(str) /\ str[s0] = "-" THEN Integer(-1, s0 + 1)
        ELSE IF s0 <= Len(str) /\ str[s0] = "+" THEN Integer(1, s0 + 1)
        ELSE Integer(1, s0)
  IN  Signed(SkipSpace(str, 1))

\* JSON.stringify and String of a value.
Quoted(cs) ==
  << "\"" >> \o cs \o << "\"" >>

RECURSIVE Join(_, _)
Join(parts, sep) ==
  IF parts = << >> THEN << >>
  ELSE IF Len(parts) = 1 THEN parts[1]
  ELSE parts[1] \o sep \o Join(Tail(parts), sep)

RECURSIVE JSONstringify(_)
JSONstringify(v) ==
  CASE v.t = "null"    -> << "n","u","l","l" >>
    [] v.t = "number"  -> NumToStr(v.n)
    [] v.t = "boolean" -> IF v.n = 1 THEN << "t","r","u","e" >>
                          ELSE << "f","a","l","s","e" >>
    [] v.t = "string"  -> Quoted(v.s)
    [] v.t = "array"   ->
         << "[" >> \o Join([ i \in DOMAIN v.a |-> JSONstringify(v.a[i]) ],
                           << "," >>) \o << "]" >>
    [] v.t = "object"  ->
         << "{" >> \o Join([ i \in DOMAIN v.o |->
                               Quoted(v.o[i].k) \o << ":" >>
                               \o JSONstringify(v.o[i].v) ],
                           << "," >>) \o << "}" >>

\* String(v) of a value that is no object
String(v) ==
  CASE v.t = "string"    -> v.s
    [] v.t = "number"    -> NumToStr(v.n)
    [] v.t = "boolean"   -> IF v.n = 1 THEN << "t","r","u","e" >>
                            ELSE << "f","a","l","s","e" >>
    [] v.t = "null"      -> << "n","u","l","l" >>
    [] v.t = "undefined" -> << "u","n","d","e","f","i","n","e","d" >>
    [] v.t = "function"  ->
         << "f","u","n","c","t","i","o","n"," " >> \o v.s
         \o << "(",")"," ","{"," ","[","n","a","t","i","v","e"," ",
               "c","o","d","e","]"," ","}" >>

(***************************************************************************)
(* String.prototype.localeCompare under the default (root) collation: the  *)
(* strings are compared by their letters regardless of case first, white   *)
(* space and punctuation before digits before letters, a proper prefix     *)
(* first; strings equal that far are told apart by case, lower case first. *)
(***************************************************************************)
CollationOrder ==
  << " ", "_", "-", ",", ".", "'" >> \o Digits \o LowerCase

CollationSet == Range(CollationOrder)

Primary(c) ==
  IF LowerChar(c) \in CollationSet THEN IndexOf(LowerChar(c), CollationOrder)
  ELSE 0

Sign(x) == IF x < 0 THEN -1 ELSE IF x > 0 THEN 1 ELSE 0

localeCompare(x, y) ==
  LET n     == IF Len(x) < Len(y) THEN Len(x) ELSE Len(y)
      diffs == { i \in 1..n : Primary(x[i]) # Primary(y[i]) }
      cases == { i \in 1..n : x[i] # y[i] }
  IN  IF diffs # {}
        THEN Sign(Primary(x[Min(diffs)]) - Primary(y[Min(diffs)]))
      ELSE IF Len(x) # Len(y) THEN Sign(Len(x) - Len(y))
      ELSE IF cases # {}
        THEN (IF x[Min(cases)] \in LowerSet THEN -1 ELSE 1)
      ELSE 0

(***************************************************************************)
(* The comparator of ORDER BY.                                             *)
(***************************************************************************)
compareFn(a, b, column, direction) ==
  LET aVal == Get(a, column)
      bVal == Get(b, column)
      asc  == direction = "asc"
  IN  IF IsNullish(aVal) /\ IsNullish(bVal) THEN 0
      ELSE IF IsNullish(aVal) THEN (IF asc THEN -1 ELSE 1)
      ELSE IF IsNullish(bVal) THEN (IF asc THEN 1 ELSE -1)
      ELSE IF typeof(aVal) = "number" /\ typeof(bVal) = "number"
        THEN (IF asc THEN aVal.n - bVal.n ELSE bVal.n - aVal.n)
      ELSE IF typeof(aVal) = "string" /\ typeof(bVal) = "string"
        THEN (IF asc THEN localeCompare(aVal.s, bVal.s)
              ELSE localeCompare(bVal.s, aVal.s))
      ELSE IF typeof(aVal) = "boolean" /\ typeof(bVal) = "boolean"
        THEN (IF asc THEN aVal.n - bVal.n ELSE bVal.n - aVal.n)
      ELSE (IF asc THEN localeCompare(String(aVal), String(bVal))
            ELSE localeCompare(String(bVal), String(aVal)))

(***************************************************************************)
(* Array.prototype.sort(comparefn).  ECMAScript fixes the result only when *)
(* comparefn is a consistent comparator for the elements: it is then the   *)
(* stable sort.  Otherwise the order is implementation-defined: any        *)
(* permutation of the elements.                                            *)
(***************************************************************************)
ConsistentComparator(S, cmp(_, _)) ==
  /\ \A x \in S : cmp(x, x) = 0
  /\ \A x, y \in S : Sign(cmp(x, y)) = -Sign(cmp(y, x))
  /\ \A x, y, z \in S :
       /\ cmp(x, y) = 0 /\ cmp(y, z) = 0 => cmp(x, z) = 0
       /\ cmp(x, y) < 0 /\ cmp(y, z) < 0 => cmp(x, z) < 0
       /\ cmp(x, y) = 0 /\ cmp(y, z) < 0 => cmp(x, z) < 0
       /\ cmp(x, y) < 0 /\ cmp(y, z) = 0 => cmp(x, z) < 0

IndexPermutations(n) ==
  { p \in [ 1..n -> 1..n ] : \A i, j \in 1..n : p[i] = p[j] => i = j }

StableSort(seq, cmp(_, _)) ==
  LET n       == Len(seq)
      rank(i) == Cardinality({ j \in 1..n :
                     \/ cmp(seq[j], seq[i]) < 0
                     \/ cmp(seq[j], seq[i]) = 0 /\ j < i }) + 1
  IN  [ r \in 1..n |-> seq[CHOOSE i \in 1..n : rank(i) = r] ]

sort(seq, cmp(_, _)) ==
  IF Len(seq) <= 1 THEN { seq }
  ELSE IF ConsistentComparator(Range(seq), cmp) THEN { StableSort(seq, cmp) }
  ELSE { [ i \in 1..Len(seq) |-> seq[p[i]] ] : p \in IndexPermutations(Len(seq)) }

(***************************************************************************)
(* flattenObject and tableInfo.                                            *)
(***************************************************************************)
\* The own enumerable properties for (key in obj) visits, in order.
OwnEntries(v) ==
  CASE v.t = "object" -> v.o
    [] v.t = "array"  ->
         [ i \in DOMAIN v.a |-> [ k |-> NumToStr(i - 1), v |-> v.a[i] ] ]
    [] v.t = "string" ->
         [ i \in DOMAIN v.s |-> [ k |-> NumToStr(i - 1), v |-> Str(<< v.s[i] >>) ] ]
    [] OTHER -> << >>

\* value.map(item => typeof item === 'object' ? JSON.stringify(item)
\*                                            : String(item)).join(', ')
ArrayText(es) ==
  Join([ i \in DOMAIN es |->
           IF typeof(es[i]) = "object" THEN JSONstringify(es[i])
           ELSE String(es[i]) ],
       << ",", " " >>)

RECURSIVE flattenEntries(_, _, _)
flattenEntries(entries, prefix, flattened) ==
  IF entries = << >> THEN flattened
  ELSE
    LET key    == Head(entries).k
        value  == Head(entries).v
        newKey == IF prefix # << >> THEN prefix \o << "_" >> \o key ELSE key
        next   ==
          IF value.t = "object"
            THEN ObjectAssign(flattened,
                              flattenEntries(OwnEntries(value), newKey, << >>))
          ELSE IF value.t = "array"
            THEN Put(flattened, newKey, Str(ArrayText(value.a)))
          ELSE Put(flattened, newKey, value)
    IN  flattenEntries(Tail(entries), prefix, next)

\* flattenObject(obj, prefix): the flat record, a sequence of members.
flattenObject(obj, prefix) == flattenEntries(OwnEntries(obj), prefix, << >>)

NoTable ==
  [ isNull |-> TRUE, columns |-> << >>, sampleData |-> << >>, fullData |-> << >> ]

columnType(value) ==
  IF value.t = "array" THEN "array"
  ELSE IF value.t = "null" THEN "string"
  ELSE IF typeof(value) = "object" THEN "object"
  ELSE typeof(value)

\* tableOf that samples the last record instead of the first
tableOfLastRecord(flattenedData) ==
  LET last == flattenedData[Len(flattenedData)]
  IN  [ isNull     |-> FALSE,
        columns    |-> [ i \in DOMAIN last |->
                           [ name     |-> last[i].k,
                             type     |-> columnType(last[i].v),
                             nullable |-> last[i].v.t = "null" ] ],
        sampleData |-> SubSeq(flattenedData, 1,
                              IF Len(flattenedData) < 3 THEN Len(flattenedData)
                              ELSE 3),
        fullData   |-> flattenedData ]

\* The memoised tableInfo of the data prop.
tableOf(flattenedData) ==
  [ isNull     |-> FALSE,
    columns    |-> [ i \in DOMAIN flattenedData[1] |->
                       [ name     |-> flattenedData[1][i].k,
                         type     |-> columnType(flattenedData[1][i].v),
                         nullable |-> flattenedData[1][i].v.t = "null" ] ],
    sampleData |-> SubSeq(flattenedData, 1,
                          IF Len(flattenedData) < 3 THEN Len(flattenedData) ELSE 3),
    fullData   |-> flattenedData ]

tableInfo(d) ==
  IF d.t # "array" \/ Len(d.a) = 0 THEN NoTable
  ELSE IF typeof(d.a[1]) # "object" \/ d.a[1].t = "null" THEN NoTable
  ELSE tableOf([ i \in DOMAIN d.a |-> flattenObject(d.a[i], << >>) ])

(***************************************************************************)
(* new RegExp(source).test(str), for the sources made of plain characters, *)
(* `.` and `*`: an atom is a character or `.`, optionally starred; a `*`   *)
(* with no atom before it is a SyntaxError.                                *)
(***************************************************************************)
\* pattern.replace(/%/g, '.*')
\* replacePercent that turns % into a single wildcard character
RECURSIVE replacePercentOneChar(_)
replacePercentOneChar(pattern) ==
  IF pattern = << >> THEN << >>
  ELSE (IF Head(pattern) = "%" THEN << "." >> ELSE << Head(pattern) >>)
       \o replacePercentOneChar(Tail(pattern))

RECURSIVE replacePercent(_)
replacePercent(pattern) ==
  IF pattern = << >> THEN << >>
  ELSE (IF Head(pattern) = "%" THEN << ".", "*" >> ELSE << Head(pattern) >>)
       \o replacePercent(Tail(pattern))

RECURSIVE RegExpAtoms(_)
RegExpAtoms(src) ==
  IF src = << >> THEN << >>
  ELSE IF Len(src) >= 2 /\ src[2] = "*"
    THEN << [ c |-> src[1], star |-> TRUE ] >> \o RegExpAtoms(SubSeq(src, 3, Len(src)))
  ELSE << [ c |-> src[1], star |-> FALSE ] >> \o RegExpAtoms(Tail(src))

RegExpInvalid(src) ==
  \E i \in DOMAIN src : src[i] = "*" /\ (i = 1 \/ src[i - 1] = "*")

AtomMatches(atom, ch) == IF atom.c = "." THEN IsDot(ch) ELSE ch = atom.c

RECURSIVE MatchHere(_, _, _, _)
MatchHere(atoms, ai, str, si) ==
  IF ai > Len(atoms) THEN TRUE
  ELSE IF atoms[ai].star
    THEN \E k \in 0..(Len(str) - si + 1) :
           /\ \A j \in si..(si + k - 1) : AtomMatches(atoms[ai], str[j])
           /\ MatchHere(atoms, ai + 1, str, si + k)
  ELSE /\ si <= Len(str)
       /\ AtomMatches(atoms[ai], str[si])
       /\ MatchHere(atoms, ai + 1, str, si + 1)

RegExpTest(src, str) ==
  \E st \in 1..(Len(str) + 1) : MatchHere(RegExpAtoms(src), 1, str, st)

(***************************************************************************)
(* evaluateWhereClause(item, clause): the verdict, or the exception the    *)
(* RegExp constructor throws.                                              *)
(***************************************************************************)
Verdict(b) == [ threw |-> FALSE, value |-> b ]
ThrowSyntaxError == [ threw |-> TRUE, value |-> FALSE ]

\* value.replace(/['"]/g, '')
removeQuotes(value) == SelectSeq(value, LAMBDA ch : ~IsQuote(ch))

\* evaluateLike whose default rejects the row
evaluateLikeRejecting(obj, clause) ==
  LET Test(source, itemValue) ==
        IF RegExpInvalid(source) THEN ThrowSyntaxError
        ELSE Verdict(RegExpTest(source, itemValue.s))
      Matched(lm, itemValue) ==
        IF lm.found /\ typeof(itemValue) = "string"
          THEN Test(replacePercent(lm.g2), itemValue)
        ELSE Verdict(FALSE)
      Like(lm) == Matched(lm, Get(obj, lm.g1))
  IN  Like(likeMatch(clause))

\* The LIKE branch and the default of evaluateWhereClause.
evaluateLike(obj, clause) ==
  LET Test(source, itemValue) ==
        IF RegExpInvalid(source) THEN ThrowSyntaxError
        ELSE Verdict(RegExpTest(source, itemValue.s))
      Matched(lm, itemValue) ==
        IF lm.found /\ typeof(itemValue) = "string"
          THEN Test(replacePercent(lm.g2), itemValue)
        ELSE Verdict(TRUE)
      Like(lm) == Matched(lm, Get(obj, lm.g1))
  IN  Like(likeMatch(clause))

textTrue == << "t","r","u","e" >>

\* parseFloat(stringValue) equals the number n (an integer)
EqualsNumber(pf, n) == ~pf.nan /\ pf.int /\ pf.val = n

evaluateWhereClause(obj, clause) ==
  LET Compare(found, itemValue, stringValue) ==
        IF found /\ typeof(itemValue) = "string"
          THEN Verdict(itemValue.s = stringValue)
        ELSE IF found /\ typeof(itemValue) = "number"
          THEN Verdict(EqualsNumber(parseFloat(stringValue), itemValue.n))
        ELSE IF found /\ typeof(itemValue) = "boolean"
          THEN Verdict((itemValue.n = 1) <=> (toLowerCase(stringValue) = textTrue))
        ELSE evaluateLike(obj, clause)
      Eq(em) == Compare(em.found, Get(obj, em.g1), removeQuotes(em.g2))
  IN  Eq(eqMatch(clause))

(***************************************************************************)
(* executeQuery(sql): what the call returns or throws.  The steps follow   *)
(* the source: WHERE, ORDER BY, LIMIT, SELECT list.                        *)
(***************************************************************************)
Throw(msg)   == [ threw |-> TRUE,  message |-> msg, value |-> << >> ]
Return(rows) == [ threw |-> FALSE, message |-> "",  value |-> rows ]

NoDataMessage     == "No data available for querying"
OnlySelectMessage == "Only SELECT queries are supported"
RegExpMessage     == "Invalid regular expression"

\* The elements of seq at the indices in keep, in order.
RECURSIVE SelectIndices(_, _, _)
SelectIndices(seq, keep, i) ==
  IF i > Len(seq) THEN << >>
  ELSE (IF i \in keep THEN << seq[i] >> ELSE << >>)
       \o SelectIndices(seq, keep, i + 1)

\* result.filter(item => evaluateWhereClause(item, whereClause))
filterRows(result, whereClause) ==
  LET Kept(verdicts) ==
        IF \E i \in DOMAIN result : verdicts[i].threw THEN Throw(RegExpMessage)
        ELSE Return(SelectIndices(result,
                                  { i \in DOMAIN result : verdicts[i].value }, 1))
  IN  Kept([ i \in DOMAIN result |-> evaluateWhereClause(result[i], whereClause) ])

whereStep(result, sql) ==
  LET Where(wm) ==
        IF wm.found THEN filterRows(result, trim(wm.g1)) ELSE Return(result)
  IN  Where(whereMatch(sql))

\* result.sort((a, b) => ...): the orders the sort may leave the rows in.
sortRows(result, column, direction) ==
  sort(result, LAMBDA a, b : compareFn(a, b, column, direction))

\* orderStep that never reads the direction
orderStepAscending(result, sql) ==
  LET Order(om) ==
        IF om.found THEN sortRows(result, om.g1, "asc") ELSE { result }
  IN  Order(orderMatch(sql))

orderStep(result, sql) ==
  LET Order(om) ==
        IF om.found
          THEN sortRows(result, om.g1,
                        IF toUpperCase(om.g2) = kwDESC THEN "desc" ELSE "asc")
        ELSE { result }
  IN  Order(orderMatch(sql))

\* slice that keeps one row more
sliceInclusive(result, limit) ==
  SubSeq(result, 1, IF limit + 1 < Len(result) THEN limit + 1 ELSE Len(result))

\* result.slice(0, limit)
slice(result, limit) ==
  SubSeq(result, 1, IF limit < Len(result) THEN limit ELSE Len(result))

limitStep(result, sql) ==
  LET Limit(lm) == IF lm.found THEN slice(result, parseInt(lm.g1)) ELSE result
  IN  Limit(limitMatch(sql))

\* pickColumns without the test `col in item`
RECURSIVE pickColumnsUnguarded(_, _, _)
pickColumnsUnguarded(item, columnList, filtered) ==
  IF columnList = << >> THEN filtered
  ELSE pickColumnsUnguarded(item, Tail(columnList),
                            Put(filtered, Head(columnList),
                                Get(item, Head(columnList))))

RECURSIVE pickColumns(_, _, _)
pickColumns(item, columnList, filtered) ==
  IF columnList = << >> THEN filtered
  ELSE pickColumns(item, Tail(columnList),
                   IF In(Head(columnList), item)
                     THEN Put(filtered, Head(columnList),
                              Get(item, Head(columnList)))
                   ELSE filtered)

\* columns.split(',').map(col => col.trim())
columnListOf(columns) ==
  LET Trimmed(pieces) == [ i \in DOMAIN pieces |-> trim(pieces[i]) ]
  IN  Trimmed(split(columns))

\* projectRows that takes * for a column name
projectRowsNoWildcard(result, columns) ==
  LET Pick(columnList) ==
        [ i \in DOMAIN result |-> pickColumns(result[i], columnList, << >>) ]
  IN  Pick(columnListOf(columns))

\* the projection on the SELECT list
projectRows(result, columns) ==
  LET Pick(columnList) ==
        [ i \in DOMAIN result |-> pickColumns(result[i], columnList, << >>) ]
  IN  IF columns = << "*" >> THEN result ELSE Pick(columnListOf(columns))

selectStep(result, sql) ==
  LET Select(sm) ==
        IF sm.found THEN projectRows(result, trim(sm.g1)) ELSE result
  IN  Select(selectMatch(sql))

\* executeSteps with LIMIT applied before ORDER BY
executeStepsLimitFirst(fullData, sql) ==
  LET Rest(filtered) ==
        IF filtered.threw THEN { filtered }
        ELSE { Return(selectStep(sorted, sql)) :
                 sorted \in orderStep(limitStep(filtered.value, sql), sql) }
  IN  Rest(whereStep(fullData, sql))

\* The steps of executeQuery after its two checks.
executeSteps(fullData, sql) ==
  LET Rest(filtered) ==
        IF filtered.threw THEN { filtered }
        ELSE { Return(selectStep(limitStep(sorted, sql), sql)) :
                 sorted \in orderStep(filtered.value, sql) }
  IN  Rest(whereStep(fullData, sql))

\* executeQuery without the test of tableInfo
executeQueryUnguarded(ti, sql) ==
  IF ~startsWith(toUpperCase(trim(sql)), kwSELECT)
    THEN { Throw(OnlySelectMessage) }
  ELSE executeSteps(ti.fullData, sql)

executeQuery(ti, sql) ==
  IF ti.isNull THEN { Throw(NoDataMessage) }
  ELSE IF ~startsWith(toUpperCase(trim(sql)), kwSELECT)
    THEN { Throw(OnlySelectMessage) }
  ELSE executeSteps(ti.fullData, sql)

(***************************************************************************)
(* The query session: the component's state and what the caller was last   *)
(* handed through onQueryResult.                                           *)
(***************************************************************************)
VARIABLES
  data,         \* the data prop, a JSON value
  query,        \* the query text
  error,        \* the error message, NoError for null
  isExecuting,
  shown,        \* the arguments of the last onQueryResult call
  memo          \* the tableInfo memoised for the data prop

\* The page (Home) and its ApiInput.
VARIABLES
  apiData,          \* Home: the data fetched, NoData for null
  filteredData,     \* Home
  activeFilters,    \* Home
  loading,          \* Home: what onLoading last reported
  pageError,        \* Home: its error state, NoError for null
  endpointHistory,  \* Home: the endpoints fetched, the latest first
  url,              \* ApiInput: the text of the input
  inputLoading,     \* ApiInput: its own loading state
  validation,       \* ApiInput: validationStatus and validationMessage
  inFlight,         \* the handleFetch call that awaits fetchApiData
  reported          \* what the latest handleFetch call reported so far

pageVars ==
  << apiData, filteredData, activeFilters, loading, pageError,
     endpointHistory, url, inputLoading, validation, inFlight, reported >>

vars == << data, query, error, isExecuting, shown, memo, pageVars >>

\* A URL text, by what new URL makes of it: "empty" and "spaces" are blank,
\* "text" does not parse, "ftp" has another protocol than http(s), "private"
\* is http://localhost/, "public" is the id-th public endpoint.
Url(kind, id) == [ kind |-> kind, id |-> id ]

EmptyUrl == Url("empty", 0)

\* null, and the JSON array an endpoint answers with
NoData == [ kind |-> "null", of |-> 0 ]
Payload(u) == [ kind |-> "array", of |-> u.id ]

\* no handleFetch call is awaiting fetchApiData
NoCall == [ pending |-> FALSE, url |-> EmptyUrl ]

Validation(status, message) == [ status |-> status, message |-> message ]

\* the state of Home and ApiInput after construction
PageInit ==
  /\ apiData = NoData
  /\ filteredData = NoData
  /\ activeFilters = << >>
  /\ loading = FALSE
  /\ pageError = "null"
  /\ endpointHistory = << >>
  /\ url = EmptyUrl
  /\ inputLoading = FALSE
  /\ validation = Validation("idle", "")
  /\ inFlight = NoCall
  /\ reported = << >>

NoError == "null"

\* A result array as the JSON value handed to the caller.
RowsValue(rows) == Arr([ i \in DOMAIN rows |-> Obj(rows[i]) ])

\* onQueryResult(result, query); ref tells whether result is the data prop
\* itself or an array the query built.
onQueryResult(result, q, ref) ==
  shown' = [ called |-> TRUE, result |-> result, query |-> q, ref |-> ref ]

NothingShown ==
  [ called |-> FALSE, result |-> Undefined, query |-> << >>, ref |-> "none" ]

\* the textarea's onChange
setQuery(q) ==
  /\ query' = q
  /\ UNCHANGED << data, error, isExecuting, shown, memo, pageVars >>

\* handleExecuteQuery without setError(null)
handleExecuteQueryKeepingError ==
  /\ trim(query) # << >>
  /\ isExecuting' = FALSE
  /\ \E out \in executeQuery(memo, query) :
       IF out.threw
         THEN error' = out.message /\ UNCHANGED shown
       ELSE UNCHANGED error /\ onQueryResult(RowsValue(out.value), query, "new")
  /\ UNCHANGED << data, query, memo, pageVars >>

\* handleExecuteQuery with setIsExecuting(false) inside the try block
handleExecuteQueryNoFinally ==
  /\ trim(query) # << >>
  /\ \E out \in executeQuery(memo, query) :
       IF out.threw
         THEN error' = out.message /\ isExecuting' = TRUE /\ UNCHANGED shown
       ELSE /\ error' = NoError
            /\ isExecuting' = FALSE
            /\ onQueryResult(RowsValue(out.value), query, "new")
  /\ UNCHANGED << data, query, memo, pageVars >>

\* handleExecuteQuery whose executeQuery works on tableInfo.fullData itself
\* and not on a copy: with no WHERE to build a new array, the sort of ORDER
\* BY is a sort of the memoised rows.
handleExecuteQueryInPlace ==
  /\ trim(query) # << >>
  /\ isExecuting' = FALSE
  /\ \E out \in executeQuery(memo, query) :
       IF out.threw
         THEN error' = out.message /\ UNCHANGED shown
       ELSE error' = NoError /\ onQueryResult(RowsValue(out.value), query, "new")
  /\ \E sorted \in
         ( IF /\ ~memo.isNull
              /\ startsWith(toUpperCase(trim(query)), kwSELECT)
              /\ ~whereMatch(query).found
             THEN orderStep(memo.fullData, query)
           ELSE { memo.fullData } ) :
       memo' = [ memo EXCEPT !.fullData = sorted ]
  /\ UNCHANGED << data, query, pageVars >>

\* executeQuery copies the memoised rows (result = [...tableInfo.fullData])
\* and sorts, slices and projects the copy: the memo is left alone.
handleExecuteQuery ==
  /\ trim(query) # << >>
  /\ isExecuting' = FALSE
  /\ \E out \in executeQuery(memo, query) :
       IF out.threw
         THEN error' = out.message /\ UNCHANGED shown
       ELSE error' = NoError /\ onQueryResult(RowsValue(out.value), query, "new")
  /\ UNCHANGED << data, query, memo, pageVars >>

handleSampleQuery(sampleQuery) ==
  /\ query' = sampleQuery
  /\ error' = NoError
  /\ UNCHANGED << data, isExecuting, shown, memo, pageVars >>

\* handleReset that hands over the flattened rows
handleResetFlattened ==
  /\ query' = << >>
  /\ error' = NoError
  /\ onQueryResult(RowsValue(memo.fullData), << >>, "new")
  /\ UNCHANGED << data, isExecuting, memo, pageVars >>

handleReset ==
  /\ query' = << >>
  /\ error' = NoError
  /\ onQueryResult(data, << >>, "data")
  /\ UNCHANGED << data, isExecuting, memo, pageVars >>

(***************************************************************************)
(* Query texts.                                                            *)
(***************************************************************************)
SelectStar ==
  << "S","E","L","E","C","T"," ","*"," ","F","R","O","M"," ","d","a",
     "t","a" >>
DropTable ==
  << "D","R","O","P"," ","T","A","B","L","E"," ","d","a","t","a" >>
Blank ==
  << " "," " >>
TopTwoQuery ==
  << "S","E","L","E","C","T"," ","n","a","m","e",","," ","p","o","p",
     "u","l","a","t","i","o","n"," ","F","R","O","M"," ","d","a","t",
     "a"," ","O","R","D","E","R"," ","B","Y"," ","p","o","p","u","l",
     "a","t","i","o","n"," ","D","E","S","C"," ","L","I","M","I","T",
     " ","2" >>
LowerCaseQuery ==
  << " "," ","s","e","l","e","c","t"," ","n","a","m","e"," ","f","r",
     "o","m"," ","d","a","t","a"," ","w","h","e","r","e"," ","n","a",
     "m","e"," ","="," ","'","B","'" >>
SelectedQuery ==
  << "S","E","L","E","C","T","E","D"," ","*"," ","F","R","O","M"," ",
     "d","a","t","a" >>
DeleteQuery ==
  << "d","e","l","e","t","e"," ","f","r","o","m"," ","d","a","t","a" >>
\* SELECT <sel> FROM data [WHERE <wh>] [ORDER BY <ord>] [LIMIT <lim>]; an
\* empty part leaves its clause out.
Render(sel, wh, ord, lim) ==
  kwSELECT \o << " " >> \o sel \o << " " >> \o kwFROM
  \o << " ", "d", "a", "t", "a" >>
  \o (IF wh = << >> THEN << >> ELSE << " " >> \o kwWHERE \o << " " >> \o wh)
  \o (IF ord = << >> THEN << >>
      ELSE << " " >> \o kwORDER \o << " " >> \o kwBY \o << " " >> \o ord)
  \o (IF lim = << >> THEN << >> ELSE << " " >> \o kwLIMIT \o << " " >> \o lim)

(***************************************************************************)
(* Datasets.                                                               *)
(***************************************************************************)
Member(key, value) == [ k |-> key, v |-> value ]

colName       == << "n","a","m","e" >>
colPopulation == << "p","o","p","u","l","a","t","i","o","n" >>

\* [{name:"A", population:10}, {name:"B", population:30},
\*  {name:"C", population:20}]
DataCities ==
  Arr(<< Obj(<< Member(colName, Str(<< "A" >>)), Member(colPopulation, Num(10)) >>),
         Obj(<< Member(colName, Str(<< "B" >>)), Member(colPopulation, Num(30)) >>),
         Obj(<< Member(colName, Str(<< "C" >>)), Member(colPopulation, Num(20)) >>) >>)

\* [{address:{city:"X"}, tags:["a","b"]}]
DataNested ==
  Arr(<< Obj(<< Member(<< "a","d","d","r","e","s","s" >>,
                       Obj(<< Member(<< "c","i","t","y" >>, Str(<< "X" >>)) >>)),
                Member(<< "t","a","g","s" >>,
                       Arr(<< Str(<< "a" >>), Str(<< "b" >>) >>)) >>) >>)

DataEmpty == Arr(<< >>)

SessionData == { DataCities, DataNested, DataEmpty }

\* SELECT * FROM data WHERE name LIKE '*'
LikeStarQuery ==
  Render(<< "*" >>, colName \o << " " >> \o kwLIKE \o << " ", "'", "*", "'" >>,
         << >>, << >>)

SessionQueries ==
  { SelectStar, DropTable, Blank, TopTwoQuery, LowerCaseQuery, DeleteQuery,
    SelectedQuery, LikeStarQuery }

\* SAMPLE_QUERIES: the query texts offered for each kind of data
SAMPLE_QUERIES(kind) ==
  CASE kind = "users" ->
        {
          << "S","E","L","E","C","T"," ","*"," ","F","R","O","M"," ","u","s",
             "e","r","s" >>,
          << "S","E","L","E","C","T"," ","n","a","m","e",","," ","e","m","a",
             "i","l",","," ","d","e","p","a","r","t","m","e","n","t"," ","F",
             "R","O","M"," ","u","s","e","r","s"," ","W","H","E","R","E"," ",
             "d","e","p","a","r","t","m","e","n","t"," ","="," ","'","E","n",
             "g","i","n","e","e","r","i","n","g","'" >>,
          << "S","E","L","E","C","T"," ","n","a","m","e",","," ","s","a","l",
             "a","r","y"," ","F","R","O","M"," ","u","s","e","r","s"," ","O",
             "R","D","E","R"," ","B","Y"," ","s","a","l","a","r","y"," ","D",
             "E","S","C" >>,
          << "S","E","L","E","C","T"," ","d","e","p","a","r","t","m","e","n",
             "t",","," ","C","O","U","N","T","(","*",")"," ","a","s"," ","c",
             "o","u","n","t"," ","F","R","O","M"," ","u","s","e","r","s"," ",
             "G","R","O","U","P"," ","B","Y"," ","d","e","p","a","r","t","m",
             "e","n","t" >>,
          << "S","E","L","E","C","T"," ","c","i","t","y",","," ","A","V","G",
             "(","s","a","l","a","r","y",")"," ","a","s"," ","a","v","g","_",
             "s","a","l","a","r","y"," ","F","R","O","M"," ","u","s","e","r",
             "s"," ","G","R","O","U","P"," ","B","Y"," ","c","i","t","y" >> }
    [] kind = "posts" ->
        {
          << "S","E","L","E","C","T"," ","*"," ","F","R","O","M"," ","p","o",
             "s","t","s" >>,
          << "S","E","L","E","C","T"," ","t","i","t","l","e",","," ","v","i",
             "e","w","s",","," ","l","i","k","e","s"," ","F","R","O","M"," ",
             "p","o","s","t","s"," ","W","H","E","R","E"," ","p","u","b","l",
             "i","s","h","e","d"," ","="," ","t","r","u","e" >>,
          << "S","E","L","E","C","T"," ","t","i","t","l","e",","," ","v","i",
             "e","w","s"," ","F","R","O","M"," ","p","o","s","t","s"," ","O",
             "R","D","E","R"," ","B","Y"," ","v","i","e","w","s"," ","D","E",
             "S","C"," ","L","I","M","I","T"," ","5" >>,
          << "S","E","L","E","C","T"," ","t","i","t","l","e",","," ","b","o",
             "d","y"," ","F","R","O","M"," ","p","o","s","t","s"," ","W","H",
             "E","R","E"," ","u","s","e","r","I","d"," ","="," ","1" >> }
    [] kind = "countries" ->
        {
          << "S","E","L","E","C","T"," ","*"," ","F","R","O","M"," ","d","a",
             "t","a" >>,
          << "S","E","L","E","C","T"," ","n","a","m","e","_","c","o","m","m",
             "o","n",","," ","a","r","e","a"," ","F","R","O","M"," ","d","a",
             "t","a"," ","O","R","D","E","R"," ","B","Y"," ","a","r","e","a",
             " ","D","E","S","C"," ","L","I","M","I","T"," ","1","0" >>,
          << "S","E","L","E","C","T"," ","c","o","n","t","i","n","e","n","t",
             "s",","," ","C","O","U","N","T","(","*",")"," ","a","s"," ","c",
             "o","u","n","t"," ","F","R","O","M"," ","d","a","t","a"," ","G",
             "R","O","U","P"," ","B","Y"," ","c","o","n","t","i","n","e","n",
             "t","s" >>,
          << "S","E","L","E","C","T"," ","n","a","m","e","_","c","o","m","m",
             "o","n",","," ","p","o","p","u","l","a","t","i","o","n"," ","F",
             "R","O","M"," ","d","a","t","a"," ","O","R","D","E","R"," ","B",
             "Y"," ","p","o","p","u","l","a","t","i","o","n"," ","D","E","S",
             "C"," ","L","I","M","I","T"," ","2","0" >>,
          << "S","E","L","E","C","T"," ","n","a","m","e","_","c","o","m","m",
             "o","n",","," ","c","a","p","i","t","a","l"," ","F","R","O","M",
             " ","d","a","t","a"," ","W","H","E","R","E"," ","c","o","n","t",
             "i","n","e","n","t","s"," ","L","I","K","E"," ","'","%","E","u",
             "r","o","p","e","%","'" >>,
          << "S","E","L","E","C","T"," ","n","a","m","e","_","c","o","m","m",
             "o","n",","," ","a","r","e","a"," ","F","R","O","M"," ","d","a",
             "t","a"," ","W","H","E","R","E"," ","a","r","e","a"," ",">"," ",
             "1","0","0","0","0","0","0"," ","O","R","D","E","R"," ","B","Y",
             " ","a","r","e","a"," ","D","E","S","C" >>,
          << "S","E","L","E","C","T"," ","n","a","m","e","_","c","o","m","m",
             "o","n",","," ","c","a","p","i","t","a","l"," ","F","R","O","M",
             " ","d","a","t","a"," ","W","H","E","R","E"," ","c","a","p","i",
             "t","a","l"," ","I","S"," ","N","O","T"," ","N","U","L","L"," ",
             "O","R","D","E","R"," ","B","Y"," ","n","a","m","e","_","c","o",
             "m","m","o","n" >> }
    [] kind = "crypto" ->
        {
          << "S","E","L","E","C","T"," ","*"," ","F","R","O","M"," ","c","r",
             "y","p","t","o" >>,
          << "S","E","L","E","C","T"," ","n","a","m","e",","," ","c","u","r",
             "r","e","n","t","_","p","r","i","c","e",","," ","m","a","r","k",
             "e","t","_","c","a","p"," ","F","R","O","M"," ","c","r","y","p",
             "t","o"," ","O","R","D","E","R"," ","B","Y"," ","m","a","r","k",
             "e","t","_","c","a","p"," ","D","E","S","C"," ","L","I","M","I",
             "T"," ","1","0" >>,
          << "S","E","L","E","C","T"," ","n","a","m","e",","," ","p","r","i",
             "c","e","_","c","h","a","n","g","e","_","p","e","r","c","e","n",
             "t","a","g","e","_","2","4","h"," ","F","R","O","M"," ","c","r",
             "y","p","t","o"," ","W","H","E","R","E"," ","p","r","i","c","e",
             "_","c","h","a","n","g","e","_","p","e","r","c","e","n","t","a",
             "g","e","_","2","4","h"," ",">"," ","0" >> }
    [] kind = "spacex" ->
        {
          << "S","E","L","E","C","T"," ","*"," ","F","R","O","M"," ","d","a",
             "t","a" >>,
          << "S","E","L","E","C","T"," ","m","i","s","s","i","o","n","_","n",
             "a","m","e",","," ","l","a","u","n","c","h","_","d","a","t","e",
             "_","u","t","c",","," ","l","a","u","n","c","h","_","s","u","c",
             "c","e","s","s"," ","F","R","O","M"," ","d","a","t","a"," ","W",
             "H","E","R","E"," ","l","a","u","n","c","h","_","s","u","c","c",
             "e","s","s"," ","="," ","t","r","u","e" >>,
          << "S","E","L","E","C","T"," ","m","i","s","s","i","o","n","_","n",
             "a","m","e",","," ","l","a","u","n","c","h","_","d","a","t","e",
             "_","u","t","c",","," ","l","a","u","n","c","h","_","s","u","c",
             "c","e","s","s"," ","F","R","O","M"," ","d","a","t","a"," ","O",
             "R","D","E","R"," ","B","Y"," ","l","a","u","n","c","h","_","d",
             "a","t","e","_","u","t","c"," ","D","E","S","C"," ","L","I","M",
             "I","T"," ","1","0" >>,
          << "S","E","L","E","C","T"," ","Y","E","A","R","(","l","a","u","n",
             "c","h","_","d","a","t","e","_","u","t","c",")"," ","a","s"," ",
             "y","e","a","r",","," ","C","O","U","N","T","(","*",")"," ","a",
             "s"," ","t","o","t","a","l","_","l","a","u","n","c","h","e","s",
             ","," ","S","U","M","(","l","a","u","n","c","h","_","s","u","c",
             "c","e","s","s",")"," ","a","s"," ","s","u","c","c","e","s","s",
             "f","u","l","_","l","a","u","n","c","h","e","s"," ","F","R","O",
             "M"," ","d","a","t","a"," ","G","R","O","U","P"," ","B","Y"," ",
             "Y","E","A","R","(","l","a","u","n","c","h","_","d","a","t","e",
             "_","u","t","c",")" >>,
          << "S","E","L","E","C","T"," ","m","i","s","s","i","o","n","_","n",
             "a","m","e",","," ","l","a","u","n","c","h","_","d","a","t","e",
             "_","u","t","c",","," ","r","o","c","k","e","t","_","n","a","m",
             "e"," ","F","R","O","M"," ","d","a","t","a"," ","W","H","E","R",
             "E"," ","r","o","c","k","e","t","_","n","a","m","e"," ","L","I",
             "K","E"," ","'","%","F","a","l","c","o","n"," ","H","e","a","v",
             "y","%","'" >>,
          << "S","E","L","E","C","T"," ","m","i","s","s","i","o","n","_","n",
             "a","m","e",","," ","l","a","u","n","c","h","_","d","a","t","e",
             "_","u","t","c",","," ","d","e","t","a","i","l","s"," ","F","R",
             "O","M"," ","d","a","t","a"," ","W","H","E","R","E"," ","l","a",
             "u","n","c","h","_","s","u","c","c","e","s","s"," ","="," ","f",
             "a","l","s","e"," ","A","N","D"," ","d","e","t","a","i","l","s",
             " ","I","S"," ","N","O","T"," ","N","U","L","L" >> }
    [] kind = "pokemon" ->
        {
          << "S","E","L","E","C","T"," ","*"," ","F","R","O","M"," ","d","a",
             "t","a" >>,
          << "S","E","L","E","C","T"," ","n","a","m","e",","," ","b","a","s",
             "e","_","e","x","p","e","r","i","e","n","c","e",","," ","h","e",
             "i","g","h","t",","," ","w","e","i","g","h","t"," ","F","R","O",
             "M"," ","d","a","t","a"," ","O","R","D","E","R"," ","B","Y"," ",
             "b","a","s","e","_","e","x","p","e","r","i","e","n","c","e"," ",
             "D","E","S","C"," ","L","I","M","I","T"," ","1","0" >>,
          << "S","E","L","E","C","T"," ","n","a","m","e",","," ","t","y","p",
             "e","s"," ","F","R","O","M"," ","d","a","t","a"," ","W","H","E",
             "R","E"," ","t","y","p","e","s"," ","L","I","K","E"," ","'","%",
             "f","i","r","e","%","'" >>,
          << "S","E","L","E","C","T"," ","n","a","m","e",","," ","w","e","i",
             "g","h","t"," ","F","R","O","M"," ","d","a","t","a"," ","W","H",
             "E","R","E"," ","w","e","i","g","h","t"," ",">"," ","1","0","0",
             " ","O","R","D","E","R"," ","B","Y"," ","w","e","i","g","h","t",
             " ","D","E","S","C" >>,
          << "S","E","L","E","C","T"," ","n","a","m","e",","," ","s","t","a",
             "t","s","_","h","p"," ","F","R","O","M"," ","d","a","t","a"," ",
             "W","H","E","R","E"," ","s","t","a","t","s","_","h","p"," ",">",
             " ","1","0","0"," ","O","R","D","E","R"," ","B","Y"," ","s","t",
             "a","t","s","_","h","p"," ","D","E","S","C" >>,
          << "S","E","L","E","C","T"," ","n","a","m","e",","," ","a","b","i",
             "l","i","t","i","e","s"," ","F","R","O","M"," ","d","a","t","a",
             " ","W","H","E","R","E"," ","a","b","i","l","i","t","i","e","s",
             " ","I","S"," ","N","O","T"," ","N","U","L","L" >> }

\* the truthiness of a value
Truthy(v) ==
  CASE v.t \in { "undefined", "null" } -> FALSE
    [] v.t = "number"  -> v.n # 0
    [] v.t = "boolean" -> v.n = 1
    [] v.t = "string"  -> v.s # << >>
    [] OTHER           -> TRUE

fieldName           == << "n","a","m","e" >>
fieldEmail          == << "e","m","a","i","l" >>
fieldTitle          == << "t","i","t","l","e" >>
fieldBody           == << "b","o","d","y" >>
fieldTypes          == << "t","y","p","e","s" >>
fieldPopulation     == << "p","o","p","u","l","a","t","i","o","n" >>
fieldMissionName    == << "m","i","s","s","i","o","n","_","n","a","m","e" >>
fieldLaunchDateUtc  == << "l","a","u","n","c","h","_","d","a","t","e","_","u","t","c" >>
fieldBaseExperience == << "b","a","s","e","_","e","x","p","e","r","i","e","n","c","e" >>
fieldCurrentPrice   == << "c","u","r","r","e","n","t","_","p","r","i","c","e" >>

\* getSampleQueries(): none without a table, else the queries of the kind the
\* first row's fields tell, the users' by default.
getSampleQueries(ti) ==
  LET Has(firstItem, field) == Truthy(Get(firstItem, field))
      Kind(firstItem) ==
        IF Has(firstItem, fieldMissionName) /\ Has(firstItem, fieldLaunchDateUtc)
          THEN "spacex"
        ELSE IF /\ Has(firstItem, fieldName) /\ Has(firstItem, fieldTypes)
                /\ Has(firstItem, fieldBaseExperience)
          THEN "pokemon"
        ELSE IF Has(firstItem, fieldName) /\ Has(firstItem, fieldEmail)
          THEN "users"
        ELSE IF Has(firstItem, fieldTitle) /\ Has(firstItem, fieldBody)
          THEN "posts"
        ELSE IF Has(firstItem, fieldName) /\ Has(firstItem, fieldPopulation)
          THEN "countries"
        ELSE IF Has(firstItem, fieldName) /\ Has(firstItem, fieldCurrentPrice)
          THEN "crypto"
        ELSE "users"
  IN  IF ti.isNull THEN { } ELSE SAMPLE_QUERIES(Kind(ti.sampleData[1]))

Init ==
  /\ data \in SessionData
  /\ query = << >>
  /\ error = NoError
  /\ isExecuting = FALSE
  /\ shown = NothingShown
  /\ memo = tableInfo(data)
  /\ PageInit

Next ==
  \/ \E q \in SessionQueries : setQuery(q)
  \/ handleExecuteQuery
  \/ \E q \in getSampleQueries(memo) : handleSampleQuery(q)
  \/ handleReset

Spec == Init /\ [][Next]_vars

(***************************************************************************)
(* executeQuery as a function of the dataset and the query text: every     *)
(* dataset of at most MaxRows rows {n: <row name>, v: <value>}, v absent,  *)
(* null, a number or a string, and the queries built from the parts below. *)
(***************************************************************************)
colN == << "n" >>
colV == << "v" >>
colZ == << "z" >>

Absent == Undefined

ExecValues == { Absent, Null, Num(2), Num(10) }

\* the i-th row of a dataset: its name is the i-th capital letter
ExecRow(i, val) ==
  << Member(colN, Str(<< UpperCase[i] >>)) >>
  \o (IF val = Absent THEN << >> ELSE << Member(colV, val) >>)

ExecDataOf(vals) == Arr([ i \in DOMAIN vals |-> Obj(ExecRow(i, vals[i])) ])

DataOver(values) ==
  { ExecDataOf(vals) : vals \in UNION { [ 1..n -> values ] : n \in 1..MaxRows } }

ExecData == DataOver(ExecValues) \cup { DataNested }

Star      == << "*" >>
SelN      == << "n" >>
SelNV     == << "n", ",", " ", "v" >>
SelVZ     == << "v", ",", "z" >>
SelProto  == << "c","o","n","s","t","r","u","c","t","o","r", ",", " ", "n" >>
WhereV2   == << "v", " ", "=", " ", "2" >>
OrdV      == << "v" >>
OrdVAsc   == << "v", " ", "A", "S", "C" >>
OrdVDesc  == << "v", " ", "D", "E", "S", "C" >>
OrdVLower == << "v", " ", "d", "e", "s", "c" >>

SelParts   == { Star, SelN }
WhereParts == { << >>, WhereV2 }
OrderParts == { << >>, OrdV, OrdVDesc }
LimitParts == { << >>, << "1" >>, << "2" >> }

SelLists   == { SelN, SelNV, SelVZ, colZ, SelProto }
LimitQuery(k) == Render(Star, << >>, << >>, NumToStr(k))

ExecQueries ==
  { Render(sel, wh, ord, lim) :
      sel \in SelParts, wh \in WhereParts, ord \in OrderParts, lim \in LimitParts }
  \cup { LimitQuery(k) : k \in 0..(MaxRows + 1) }
  \cup { Render(sel, << >>, << >>, << >>) : sel \in SelLists }

InitExec ==
  /\ data \in ExecData
  /\ query \in ExecQueries
  /\ error = NoError
  /\ isExecuting = FALSE
  /\ shown = NothingShown
  /\ memo = tableInfo(data)
  /\ PageInit

NextExec == handleExecuteQuery

SpecExec == InitExec /\ [][NextExec]_vars

\* handleExecuteQuery has run: it either handed a result over or set the error
Executed == shown.called \/ error # NoError

(***************************************************************************)
(* ORDER BY: datasets whose column v mixes absent, null, numbers and a     *)
(* string, under the ORDER BY queries.                                     *)
(***************************************************************************)
SortValues == ExecValues \cup { Num(1), Str(<< "2" >>) }

SortData == DataOver(SortValues)

OrderQuery(ord) == Render(Star, << >>, ord, << >>)

AscOrders  == { OrdV, OrdVAsc }
DescOrders == { OrdVDesc, OrdVLower }

SortQueries == { OrderQuery(ord) : ord \in AscOrders \cup DescOrders }

InitSort ==
  /\ data \in SortData
  /\ query \in SortQueries
  /\ error = NoError
  /\ isExecuting = FALSE
  /\ shown = NothingShown
  /\ memo = tableInfo(data)
  /\ PageInit

NextSort == handleExecuteQuery

SpecSort == InitSort /\ [][NextSort]_vars

(***************************************************************************)
(* WHERE v = <literal> on a dataset of one row.                            *)
(***************************************************************************)
WhereValues ==
  { Absent, Null, Str(<< "2" >>), Str(<< "a", "b" >>), Str(<< >>),
    Num(2), Num(0), Bool(TRUE), Bool(FALSE) }

WhereData == { ExecDataOf(<< val >>) : val \in WhereValues }

\* a literal as written in the query and the text it denotes
Literal(text, value) == [ text |-> text, value |-> value ]
Bare(text)    == Literal(text, text)
Quoted1(text) == Literal(<< "'" >> \o text \o << "'" >>, text)
Quoted2(text) == Literal(<< "\"" >> \o text \o << "\"" >>, text)

WhereLiterals ==
  { Bare(<< "2" >>), Quoted1(<< "2" >>), Bare(<< "2", ".", "0" >>),
    Bare(<< "0" >>), Quoted1(<< "a", "b" >>), Quoted2(<< "A", "b" >>),
    Bare(<< "t", "r", "u", "e" >>), Quoted1(<< "T", "R", "U", "E" >>),
    Bare(<< "f", "a", "l", "s", "e" >>), Bare(<< "n", "o" >>),
    Quoted1(<< >>), Quoted2(<< >>) }

EqualityQuery(lit) ==
  Render(Star, << "v", " ", "=", " " >> \o lit.text, << >>, << >>)

WhereQueries == { EqualityQuery(lit) : lit \in WhereLiterals }

InitWhere ==
  /\ data \in WhereData
  /\ query \in WhereQueries
  /\ error = NoError
  /\ isExecuting = FALSE
  /\ shown = NothingShown
  /\ memo = tableInfo(data)
  /\ PageInit

NextWhere == handleExecuteQuery

SpecWhere == InitWhere /\ [][NextWhere]_vars

(***************************************************************************)
(* WHERE clauses on a string column c: LIKE patterns, clauses of neither   *)
(* shape, malformed clauses and keywords in lower case.                    *)
(***************************************************************************)
colC == << "c" >>

ClauseValues ==
  { << "a", "b" >>, << "x", "a", "b", "y" >>, << "A", "B" >>, << "b" >>, << >> }

ClauseRow(i, text) ==
  << Member(colN, Str(<< UpperCase[i] >>)), Member(colC, Str(text)) >>

ClauseDataOf(texts) == Arr([ i \in DOMAIN texts |-> Obj(ClauseRow(i, texts[i])) ])

ClauseData ==
  { ClauseDataOf(texts) :
      texts \in UNION { [ 1..n -> ClauseValues ] : n \in 1..MaxRows } }

PatWhole    == << "a", "b" >>
PatContains == << "%", "a", "b", "%" >>
PatPrefix   == << "a", "b", "%" >>
PatStar     == << "*" >>
PatTwoStars == << "%", "*" >>

LikePatterns == { PatWhole, PatContains, PatPrefix, PatStar, PatTwoStars }

\* c LIKE '<pattern>', kw the keyword as written
LikeClause(kw, pattern) ==
  colC \o << " " >> \o kw \o << " ", "'" >> \o pattern \o << "'" >>

LikeQuery(pattern) == Render(Star, LikeClause(kwLIKE, pattern), << >>, << >>)

ClauseGreater == << "c", " ", ">", " ", "1" >>
ClauseNotNull ==
  << "c", " ", "I", "S", " ", "N", "O", "T", " ", "N", "U", "L", "L" >>

OtherClauses == { ClauseGreater, ClauseNotNull }

OtherQuery(clause) == Render(Star, clause, << >>, << >>)

\* queries that begin with SELECT and have a clause cut short
MalformedQueries ==
  { SelectStar \o << " " >> \o kwWHERE,
    SelectStar \o << " " >> \o kwORDER \o << " " >> \o kwBY,
    SelectStar \o << " " >> \o kwLIMIT \o << " ", "x" >>,
    kwSELECT \o << " " >> \o kwFROM }

OrdCDesc == << "c", " ", "D", "E", "S", "C" >>
OrdCAsc  == << "c", " ", "A", "S", "C" >>

\* queries whose only upper-case letters are those of their keywords
CaseQueries ==
  { Render(SelN, << >>, OrdCDesc, << "2" >>),
    Render(Star, << >>, OrdCAsc, << >>),
    Render(Star, LikeClause(kwLIKE, PatContains), << >>, << >>),
    Render(SelN, LikeClause(kwLIKE, PatWhole), OrdCDesc, << "1" >>) }

ClauseQueries ==
  { LikeQuery(pattern) : pattern \in LikePatterns }
  \cup { OtherQuery(clause) : clause \in OtherClauses }
  \cup MalformedQueries
  \cup CaseQueries
  \cup { toLowerCase(q) : q \in CaseQueries }

InitClause ==
  /\ data \in ClauseData
  /\ query \in ClauseQueries
  /\ error = NoError
  /\ isExecuting = FALSE
  /\ shown = NothingShown
  /\ memo = tableInfo(data)
  /\ PageInit

NextClause == handleExecuteQuery

SpecClause == InitClause /\ [][NextClause]_vars

(***************************************************************************)
(* Flattening: datasets of one record whose fields are scalars, null,      *)
(* arrays and nested objects, read back with SELECT * FROM data.  A record *)
(* is bounded by the number of members it has at all levels together.      *)
(***************************************************************************)
MaxMembers == 3

keyA  == << "a" >>
keyB  == << "b" >>
keyAB == << "a", "_", "b" >>

\* the keys of the generated records; the empty string is a key of JSON
FlatKeys == { keyA, keyB, keyAB, << >> }

\* ["a", {"b":1}]
TagsArray == Arr(<< Str(<< "a" >>), Obj(<< Member(keyB, Num(1)) >>) >>)

\* the values that are no nested object
FlatLeaves == { Num(1), Null, TagsArray }

\* The objects (as member sequences) of exactly n members at all levels
\* together, with no key twice in one object.
RECURSIVE ObjectsOfSize(_)
ObjectsOfSize(n) ==
  IF n = 0 THEN { << >> }
  ELSE UNION {
         LET values == IF j = 0 THEN FlatLeaves \cup { Obj(<< >>) }
                       ELSE { Obj(ms) : ms \in ObjectsOfSize(j) }
         IN  { << Member(k, v) >> \o rest :
                 << k, v, rest >> \in
                   { t \in FlatKeys \X values \X ObjectsOfSize(n - 1 - j) :
                       t[1] \notin Keys(t[3]) } }
         : j \in 0..(n - 1) }

\* the datasets of one record of at most the given number of members, and
\* the dataset [{address:{city:"X"}, tags:["a","b"]}]
FlatData(members) ==
  { Arr(<< Obj(ms) >>) :
      ms \in UNION { ObjectsOfSize(n) : n \in 1..members } }
  \cup { DataNested }

InitFlat ==
  /\ data \in FlatData(MaxMembers)
  /\ query = SelectStar
  /\ error = NoError
  /\ isExecuting = FALSE
  /\ shown = NothingShown
  /\ memo = tableInfo(data)
  /\ PageInit

NextFlat == handleExecuteQuery

SpecFlat == InitFlat /\ [][NextFlat]_vars

(***************************************************************************)
(* The table: what the data prop may be (no array, an empty array, an      *)
(* array of up to MaxRows records that need not be objects), read with     *)
(* three queries.                                                          *)
(***************************************************************************)
keyC == << "c" >>

\* {a:1, b:null}
RecordAB == Obj(<< Member(keyA, Num(1)), Member(keyB, Null) >>)

\* {b:2, c:"x"}
RecordBC == Obj(<< Member(keyB, Num(2)), Member(keyC, Str(<< "x" >>)) >>)

\* {c:{a:1}}
RecordC == Obj(<< Member(keyC, Obj(<< Member(keyA, Num(1)) >>)) >>)

\* the records that are no mapping: null, an array, a string, a number
NotMappings == { Null, TagsArray, Str(<< "a", "b" >>), Num(5) }

TableRecords == { RecordAB, RecordBC, RecordC } \cup NotMappings

\* what is no array at all: null, and an object
NotArrays == { Null, RecordAB }

\* the arrays of at most rows records, and what is no array
TableData(rows) ==
  UNION { { Arr(recs) : recs \in [ 1..n -> TableRecords ] } : n \in 0..rows }
  \cup NotArrays

\* SELECT a FROM data
SelectAQuery == Render(keyA, << >>, << >>, << >>)

\* SELECT * FROM data LIMIT 1
LimitOneQuery == Render(<< "*" >>, << >>, << >>, << "1" >>)

TableQueries == { SelectStar, SelectAQuery, LimitOneQuery }

InitTable ==
  /\ data \in TableData(MaxRows)
  /\ query \in TableQueries
  /\ error = NoError
  /\ isExecuting = FALSE
  /\ shown = NothingShown
  /\ memo = tableInfo(data)
  /\ PageInit

NextTable == handleExecuteQuery

SpecTable == InitTable /\ [][NextTable]_vars

(***************************************************************************)
(* A session in which the parent renders the mounted editor again with     *)
(* another value of the data prop.  A component's state (query, error,     *)
(* isExecuting) is kept across renders; tableInfo is memoised on data and  *)
(* is computed again.  What the parent was handed stays with the parent.   *)
(***************************************************************************)
renderWithData(newData) ==
  /\ newData # data
  /\ data' = newData
  /\ memo' = tableInfo(newData)
  /\ UNCHANGED << query, error, isExecuting, shown, pageVars >>

NextReplace ==
  \/ Next
  \/ \E newData \in SessionData : renderWithData(newData)

SpecReplace == Init /\ [][NextReplace]_vars

(***************************************************************************)
(* GROUP BY and aggregates: the datasets of at most MaxRows rows {n, v}    *)
(* under queries with an aggregate in the SELECT list and a GROUP BY.      *)
(***************************************************************************)
\* v, COUNT(*) as count
SelCount ==
  << "v", ",", " ", "C","O","U","N","T","(","*",")", " ", "a","s", " ",
     "c","o","u","n","t" >>

\* AVG(v) as avg_v
SelAvg ==
  << "A","V","G","(","v",")", " ", "a","s", " ", "a","v","g","_","v" >>

GroupByV == << " " >> \o kwGROUP \o << " " >> \o kwBY \o << " ", "v" >>

\* SELECT <sel> FROM data [WHERE <wh>] GROUP BY v
GroupQuery(sel, wh) == Render(sel, wh, << >>, << >>) \o GroupByV

GroupSelects == { SelCount, SelAvg }

GroupQueries ==
  { GroupQuery(sel, wh) : sel \in GroupSelects, wh \in WhereParts }

InitGroup ==
  /\ data \in DataOver(ExecValues)
  /\ query \in GroupQueries
  /\ error = NoError
  /\ isExecuting = FALSE
  /\ shown = NothingShown
  /\ memo = tableInfo(data)
  /\ PageInit

NextGroup == handleExecuteQuery

SpecGroup == InitGroup /\ [][NextGroup]_vars

(***************************************************************************)
(* The page: Home with its ApiInput.  handleFetch runs up to its await,    *)
(* and again when fetchApiData has settled.                                *)
(***************************************************************************)
MaxUrls == 6

\* endpointHistory keeps this many entries
HistoryLimit == 5

PublicUrls(n) == { Url("public", i) : i \in 1..n }

OtherUrls ==
  { EmptyUrl, Url("spaces", 0), Url("text", 0), Url("ftp", 0), Url("private", 0) }

\* inputUrl.trim() is empty
IsBlank(u) == u.kind \in { "empty", "spaces" }

\* new URL(u)
URL(u) ==
  [ parses   |-> u.kind \in { "ftp", "private", "public" },
    protocol |-> CASE u.kind = "ftp"     -> "ftp:"
                   [] u.kind = "private" -> "http:"
                   [] OTHER              -> "https:",
    hostname |-> IF u.kind = "private" THEN "localhost" ELSE "api.test",
    pathname |-> u.id ]

\* validateUrl(inputUrl): what it returns and the validation state it sets
validateUrl(inputUrl) ==
  IF IsBlank(inputUrl)
    THEN [ ok |-> FALSE, validation |-> Validation("idle", "") ]
  ELSE IF ~URL(inputUrl).parses
    THEN [ ok |-> FALSE,
           validation |-> Validation("invalid", "Invalid URL format") ]
  ELSE IF URL(inputUrl).protocol \notin { "http:", "https:" }
    THEN [ ok |-> FALSE,
           validation |->
             Validation("invalid", "Only HTTP and HTTPS URLs are allowed") ]
  ELSE IF URL(inputUrl).hostname = ""
    THEN [ ok |-> FALSE,
           validation |-> Validation("invalid", "Invalid URL format") ]
  ELSE [ ok |-> TRUE, validation |-> Validation("valid", "URL looks good!") ]

Success(d) == [ success |-> TRUE, data |-> d, error |-> "" ]
Failure(message) == [ success |-> FALSE, data |-> NoData, error |-> message ]

\* fetchApiData(url): the values it may resolve with
fetchApiData(u) ==
  IF IsBlank(u) THEN { Failure("Please provide a valid URL") }
  ELSE IF ~URL(u).parses THEN { Failure("Invalid URL format") }
  ELSE IF URL(u).protocol \notin { "http:", "https:" }
    THEN { Failure("Only HTTP and HTTPS URLs are allowed") }
  ELSE IF URL(u).hostname = "localhost"
    THEN { Failure("Private/localhost URLs are not allowed for security reasons") }
  ELSE { Success(Payload(u)), Failure("HTTP 404: Not Found") }

\* await fetchApiData(url): it resolves with a value, or the call itself is
\* rejected, with an Error or with something else
Settled(u) ==
  { [ threw |-> FALSE, isError |-> FALSE, result |-> r ] : r \in fetchApiData(u) }
  \cup { [ threw |-> TRUE, isError |-> e, result |-> Failure("Failed to fetch") ] :
           e \in BOOLEAN }

\* the resolved values alone
Resolved(u) == { o \in Settled(u) : ~o.threw /\ o.result.success }

\* getEndpointName(url): host and path for the endpoints of the model
getEndpointName(u) ==
  IF URL(u).parses
    THEN [ named |-> TRUE, hostname |-> URL(u).hostname, pathname |-> URL(u).pathname ]
  ELSE [ named |-> FALSE, hostname |-> "", pathname |-> u.id ]

\* the history entry of an endpoint (its timestamp is left out)
HistoryItem(u) == [ url |-> u, name |-> getEndpointName(u) ]

editorVars == << data, query, error, isExecuting, shown, memo >>

\* handleDataFetch that puts the entry in front of the whole old history
handleDataFetchUnfiltered(d, u) ==
  /\ apiData' = d
  /\ filteredData' = d
  /\ pageError' = "null"
  /\ endpointHistory' =
       LET added == << HistoryItem(u) >> \o endpointHistory
       IN SubSeq(added, 1, Min({ Len(added), HistoryLimit }))

\* handleDataFetch(data, url) of the page
handleDataFetch(d, u) ==
  /\ apiData' = d
  /\ filteredData' = d
  /\ pageError' = "null"
  /\ endpointHistory' =
       LET filtered == SelectSeq(endpointHistory, LAMBDA item : item.url # u)
           added == << HistoryItem(u) >> \o filtered
       IN SubSeq(added, 1, Min({ Len(added), HistoryLimit }))

\* handleError(errorMessage) of the page
handleError(errorMessage) ==
  /\ pageError' = errorMessage
  /\ apiData' = NoData
  /\ filteredData' = NoData

\* handleLoading(isLoading) of the page
handleLoading(isLoading) == loading' = isLoading

\* The input is edited; it is disabled while the component is loading.
handleUrlChange(newUrl) ==
  /\ ~inputLoading
  /\ url' = newUrl
  /\ validation' = validateUrl(newUrl).validation
  /\ UNCHANGED << apiData, filteredData, activeFilters, loading, pageError,
                  endpointHistory, inputLoading, inFlight, reported >>
  /\ UNCHANGED editorVars

\* An entry of the history list is clicked.
handleSampleClick(sampleUrl) ==
  /\ \E i \in 1..Len(endpointHistory) : endpointHistory[i].url = sampleUrl
  /\ url' = sampleUrl
  /\ validation' = validateUrl(sampleUrl).validation
  /\ UNCHANGED << apiData, filteredData, activeFilters, loading, pageError,
                  endpointHistory, inputLoading, inFlight, reported >>
  /\ UNCHANGED editorVars

\* A sample card of the page is clicked: apiInputRef.current.setUrl(api.url).
\* The cards show while there is no data and the page is not loading.
setUrl(newUrl) ==
  /\ apiData = NoData
  /\ ~loading
  /\ url' = newUrl
  /\ validation' = validateUrl(newUrl).validation
  /\ UNCHANGED << apiData, filteredData, activeFilters, loading, pageError,
                  endpointHistory, inputLoading, inFlight, reported >>
  /\ UNCHANGED editorVars

\* handleFetch up to its await: the button or the Enter key, neither of
\* which acts while the component is loading.
handleFetch ==
  /\ ~inputLoading
  /\ IF IsBlank(url) \/ ~validateUrl(url).ok
       THEN /\ validation' =
                 IF IsBlank(url) THEN validation ELSE validateUrl(url).validation
            /\ handleError("Please enter a valid URL")
            /\ reported' = << "onError" >>
            /\ UNCHANGED << loading, inputLoading, inFlight, endpointHistory >>
       ELSE /\ inputLoading' = TRUE
            /\ handleLoading(TRUE)
            /\ validation' = Validation("idle", "")
            /\ inFlight' = [ pending |-> TRUE, url |-> url ]
            /\ reported' = << "onLoading(true)" >>
            /\ UNCHANGED << apiData, filteredData, pageError, endpointHistory >>
  /\ UNCHANGED << activeFilters, url >>
  /\ UNCHANGED editorVars

\* handleFetch from its await on whose catch block is the end of a rejected
\* call: no finally block
handleFetchSettledNoFinally(outcome) ==
  /\ inFlight.pending
  /\ IF ~outcome.threw /\ outcome.result.success
       THEN /\ handleDataFetch(outcome.result.data, inFlight.url)
            /\ validation' = Validation("valid", "Data fetched successfully!")
            /\ reported' = reported \o << "onDataFetch", "onLoading(false)" >>
            /\ inputLoading' = FALSE
            /\ handleLoading(FALSE)
       ELSE LET errorMessage ==
                  IF outcome.threw
                    THEN IF outcome.isError THEN outcome.result.error
                                            ELSE "An unexpected error occurred"
                  ELSE IF outcome.result.error = "" THEN "Failed to fetch data"
                                                    ELSE outcome.result.error
            IN /\ handleError(errorMessage)
               /\ validation' = Validation("invalid", errorMessage)
               /\ UNCHANGED endpointHistory
               /\ IF outcome.threw
                    THEN /\ reported' = reported \o << "onError" >>
                         /\ UNCHANGED << inputLoading, loading >>
                    ELSE /\ reported' = reported \o << "onError", "onLoading(false)" >>
                         /\ inputLoading' = FALSE
                         /\ handleLoading(FALSE)
  /\ inFlight' = NoCall
  /\ UNCHANGED << activeFilters, url >>
  /\ UNCHANGED editorVars

\* handleFetch from its await on, with the outcome of fetchApiData.
handleFetchSettled(outcome) ==
  /\ inFlight.pending
  /\ IF ~outcome.threw /\ outcome.result.success
       THEN /\ handleDataFetch(outcome.result.data, inFlight.url)
            /\ validation' = Validation("valid", "Data fetched successfully!")
            /\ reported' = reported \o << "onDataFetch", "onLoading(false)" >>
       ELSE LET errorMessage ==
                  IF outcome.threw
                    THEN IF outcome.isError THEN outcome.result.error
                                            ELSE "An unexpected error occurred"
                  ELSE IF outcome.result.error = "" THEN "Failed to fetch data"
                                                    ELSE outcome.result.error
            IN /\ handleError(errorMessage)
               /\ validation' = Validation("invalid", errorMessage)
               /\ reported' = reported \o << "onError", "onLoading(false)" >>
               /\ UNCHANGED endpointHistory
  /\ inputLoading' = FALSE
  /\ handleLoading(FALSE)
  /\ inFlight' = NoCall
  /\ UNCHANGED << activeFilters, url >>
  /\ UNCHANGED editorVars

\* handleLogoClick of the page, with clearInput of the input
handleLogoClick ==
  /\ apiData' = NoData
  /\ filteredData' = NoData
  /\ activeFilters' = << >>
  /\ pageError' = "null"
  /\ loading' = FALSE
  /\ url' = EmptyUrl
  /\ validation' = Validation("idle", "")
  /\ UNCHANGED << endpointHistory, inputLoading, inFlight, reported >>
  /\ UNCHANGED editorVars

\* handleFilterChange(filtered, filters): the filter panel shows with data
handleFilterChange(filters) ==
  /\ apiData.kind = "array"
  /\ filteredData' = IF filters = << >> THEN apiData
                     ELSE [ kind |-> "filtered", of |-> apiData.of ]
  /\ activeFilters' = filters
  /\ UNCHANGED << apiData, loading, pageError, endpointHistory, url,
                  inputLoading, validation, inFlight, reported >>
  /\ UNCHANGED editorVars

PageUrls == OtherUrls \cup PublicUrls(2)

PageFilters == { << >>, << "f" >> }

InitPage ==
  /\ data = DataEmpty
  /\ query = << >>
  /\ error = NoError
  /\ isExecuting = FALSE
  /\ shown = NothingShown
  /\ memo = tableInfo(data)
  /\ PageInit

NextPage ==
  \/ \E newUrl \in PageUrls : handleUrlChange(newUrl)
  \/ \E sampleUrl \in PageUrls : handleSampleClick(sampleUrl)
  \/ \E newUrl \in PublicUrls(2) : setUrl(newUrl)
  \/ handleFetch
  \/ \E outcome \in Settled(inFlight.url) : handleFetchSettled(outcome)
  \/ handleLogoClick
  \/ \E filters \in PageFilters : handleFilterChange(filters)

SpecPage == InitPage /\ [][NextPage]_vars

\* The history alone: public endpoints are fetched, and every fetch resolves.
NextHistory ==
  \/ \E newUrl \in PublicUrls(MaxUrls) : handleUrlChange(newUrl)
  \/ handleFetch
  \/ \E outcome \in Resolved(inFlight.url) : handleFetchSettled(outcome)

SpecHistory == InitPage /\ [][NextHistory]_vars

(***************************************************************************)
(* WHERE c = 'ab' AND <condition> on rows whose c is a string or null.     *)
(***************************************************************************)
AndValues == { Str(<< "a", "b" >>), Str(<< "b" >>), Null }

AndRow(i, val) == << Member(colN, Str(<< UpperCase[i] >>)), Member(colC, val) >>

AndDataOf(vals) == Arr([ i \in DOMAIN vals |-> Obj(AndRow(i, vals[i])) ])

AndData(rows) ==
  { AndDataOf(vals) : vals \in UNION { [ 1..n -> AndValues ] : n \in 1..rows } }

ClauseCIsAb == << "c", " ", "=", " ", "'", "a", "b", "'" >>

\* the conditions after the AND
CondNLikeA ==
  << "n", " ", "L", "I", "K", "E", " ", "'", "%", "A", "%", "'" >>
CondNIsB == << "n", " ", "=", " ", "'", "B", "'" >>
CondNNotNull ==
  << "n", " ", "I", "S", " ", "N", "O", "T", " ", "N", "U", "L", "L" >>

LaterConditions == { CondNLikeA, CondNIsB, CondNNotNull }

AndQuery(cond) ==
  Render(Star, ClauseCIsAb \o << " ", "A", "N", "D", " " >> \o cond, << >>, << >>)

AndQueries == { AndQuery(cond) : cond \in LaterConditions }

InitAnd ==
  /\ data \in AndData(MaxRows)
  /\ query \in AndQueries
  /\ error = NoError
  /\ isExecuting = FALSE
  /\ shown = NothingShown
  /\ memo = tableInfo(data)
  /\ PageInit

NextAnd == handleExecuteQuery

SpecAnd == InitAnd /\ [][NextAnd]_vars

(***************************************************************************)
(* The claims.                                                             *)
(***************************************************************************)
Reverse(seq) == [ i \in 1..Len(seq) |-> seq[Len(seq) + 1 - i] ]

\* the rows of the result handed over
ResultRows == [ i \in DOMAIN shown.result.a |-> shown.result.a[i].o ]

\* the flattened rows of the dataset
FlatRows == tableInfo(data).fullData

\* The four stages applied to rows in the order filter, sort, limit, project,
\* each with the part of the query it reads: the results the order allows.
Filtered(rows, wh) ==
  IF wh = << >> THEN rows ELSE filterRows(rows, wh).value
Sorted(rows, ord) ==
  IF ord = << >> THEN { rows }
  ELSE sortRows(rows, colV, IF ord = OrdVDesc THEN "desc" ELSE "asc")
Limited(rows, lim) ==
  IF lim = << >> THEN rows ELSE slice(rows, DigitsToNat(lim))
Pipeline(rows, sel, wh, ord, lim) ==
  { projectRows(Limited(srt, lim), sel) : srt \in Sorted(Filtered(rows, wh), ord) }

\* C1: for every dataset and every SELECT query built of a select list, a
\* WHERE, an ORDER BY and a LIMIT part, the result handed over is
\* project(limit(sort(filter(rows)))): WHERE and ORDER BY read the full
\* flattened rows, LIMIT keeps the first rows of the sorted sequence.
C1_PipelineOrder ==
  \A sel \in SelParts, wh \in WhereParts, ord \in OrderParts, lim \in LimitParts :
    (query = Render(sel, wh, ord, lim) /\ Executed)
      => /\ error = NoError
         /\ shown.called
         /\ ResultRows \in Pipeline(FlatRows, sel, wh, ord, lim)

\* rows v = 2, 10, 10 under SELECT n FROM data ORDER BY v DESC LIMIT 2: the
\* two rows of the largest v, named by a column the sort did not keep
C1_Witness ==
  /\ data = ExecDataOf(<< Num(2), Num(10), Num(10) >>)
  /\ query = Render(SelN, << >>, OrdVDesc, << "2" >>)
  /\ shown.called
  /\ ResultRows = << << Member(colN, Str(<< "B" >>)) >>,
                     << Member(colN, Str(<< "C" >>)) >> >>

\* the first word of the trimmed query, in upper case
LeadingKeyword(q) ==
  LET Word(t) == SubSeq(t, 1, RunLen("word", t, 1))
  IN  toUpperCase(Word(trim(q)))

\* C2: executing a query whose leading keyword (trimmed, in any case) is not
\* SELECT fails: the error is set, onQueryResult is not called (what was
\* shown stays), and the dataset is untouched.
C2_NonSelectFails ==
  [][ (handleExecuteQuery /\ LeadingKeyword(query) # kwSELECT)
        => /\ error' # NoError
           /\ shown' = shown
           /\ data' = data ]_vars

\* the value of column v in a row
ValueOfV(row) == Get(row, colV)

\* the position in the dataset of a row of the result
RowIndex(row) == CHOOSE k \in DOMAIN FlatRows : FlatRows[k] = row

\* C3: in the result of an ORDER BY query, ascending or descending, the rows
\* whose sort column is null or missing come after all rows with a value.
C3_NullsLast ==
  shown.called
    => \A i, j \in DOMAIN ResultRows :
         (i < j /\ IsNullish(ValueOfV(ResultRows[i])))
           => IsNullish(ValueOfV(ResultRows[j]))

\* C4: ORDER BY is stable: two rows whose sort keys compare equal keep the
\* relative order they had in the dataset.
C4_StableSort ==
  shown.called
    => \A i, j \in DOMAIN ResultRows :
         (i < j /\ compareFn(ResultRows[i], ResultRows[j], colV, "asc") = 0)
           => RowIndex(ResultRows[i]) < RowIndex(ResultRows[j])

\* every row has a number in column v, no two the same
NumericDistinct ==
  /\ \A i \in DOMAIN FlatRows : typeof(ValueOfV(FlatRows[i])) = "number"
  /\ \A i, j \in DOMAIN FlatRows :
       ValueOfV(FlatRows[i]).n = ValueOfV(FlatRows[j]).n => i = j

\* C5: when column v holds pairwise distinct numbers in every row, the
\* result of SELECT * FROM data ORDER BY v DESC is the exact reverse of the
\* result of SELECT * FROM data ORDER BY v ASC.
C5_DescReversesAsc ==
  (NumericDistinct /\ query = OrderQuery(OrdVDesc) /\ Executed)
    => /\ shown.called
       /\ \A asc \in executeQuery(tableInfo(data), OrderQuery(OrdVAsc)) :
            ~asc.threw /\ ResultRows = Reverse(asc.value)

\* v = 2, 10, 1 under ORDER BY v DESC: the rows B, A, C
C5_Witness ==
  /\ data = ExecDataOf(<< Num(2), Num(10), Num(1) >>)
  /\ query = OrderQuery(OrdVDesc)
  /\ shown.called
  /\ ResultRows = << ExecRow(2, Num(10)), ExecRow(1, Num(2)), ExecRow(3, Num(1)) >>

\* C6: for every non-empty dataset, SELECT * FROM data returns exactly the
\* flattened rows: as many rows, each with the same keys and values, in the
\* original order.
C6_SelectStarIdentity ==
  (query = SelectStar /\ Executed)
    => /\ error = NoError
       /\ shown.called
       /\ Len(ResultRows) = Len(data.a)
       /\ ResultRows = [ i \in DOMAIN data.a |-> flattenObject(data.a[i], << >>) ]

\* [{address:{city:"X"}, tags:["a","b"]}] under SELECT * FROM data
C6_Witness ==
  /\ data = DataNested
  /\ query = SelectStar
  /\ shown.called
  /\ ResultRows =
       << << Member(<< "a","d","d","r","e","s","s","_","c","i","t","y" >>,
                    Str(<< "X" >>)),
             Member(<< "t","a","g","s" >>, Str(<< "a", ",", " ", "b" >>)) >> >>

\* C7: SELECT * FROM data LIMIT N returns the first min(N, length) rows in
\* the original order: all of them when N >= length, none when N = 0.
C7_LimitPrefix ==
  \A k \in 0..(MaxRows + 1) :
    (query = LimitQuery(k) /\ Executed)
      => /\ error = NoError
         /\ shown.called
         /\ ResultRows = SubSeq(FlatRows, 1, Min({ k, Len(FlatRows) }))
         /\ k = 0 => ResultRows = << >>
         /\ k >= Len(FlatRows) => ResultRows = FlatRows

\* three rows under LIMIT 2: the first two
C7_Witness ==
  /\ data = ExecDataOf(<< Num(10), Null, Num(2) >>)
  /\ query = LimitQuery(2)
  /\ shown.called
  /\ ResultRows = << ExecRow(1, Num(10)), ExecRow(2, Null) >>

\* the column names a select list asks for
Requested(sel) == Range(columnListOf(sel))

\* C8: under a select list, every result row has exactly the requested
\* columns that are keys of its source row, with the source row's values: a
\* column the row lacks is left out and no other key appears.
C8_ProjectionKeys ==
  \A sel \in SelLists :
    (query = Render(sel, << >>, << >>, << >>) /\ shown.called)
      => /\ Len(ResultRows) = Len(FlatRows)
         /\ \A i \in DOMAIN ResultRows :
              /\ Keys(ResultRows[i]) = Requested(sel) \cap Keys(FlatRows[i])
              /\ \A key \in Keys(ResultRows[i]) :
                   Get(ResultRows[i], key) = Get(FlatRows[i], key)

\* the one row of the dataset passed the filter
Kept == Len(ResultRows) = 1

textFalse == << "f","a","l","s","e" >>

\* C9: for WHERE v = literal on a row whose v is a string, a number or a
\* boolean: a string matches iff it equals the literal exactly, a number iff
\* it equals the literal parsed as a float, a boolean iff the literal reads
\* true for a true value and false for a false value.
C9_EqualityMatches ==
  \A val \in WhereValues, lit \in WhereLiterals :
    (data = ExecDataOf(<< val >>) /\ query = EqualityQuery(lit) /\ shown.called)
      => /\ typeof(val) = "string" => (Kept <=> val.s = lit.value)
         /\ typeof(val) = "number"
              => (Kept <=> EqualsNumber(parseFloat(lit.value), val.n))
         /\ typeof(val) = "boolean"
              => (Kept <=> toLowerCase(lit.value)
                             = (IF val.n = 1 THEN textTrue ELSE textFalse))

\* C10: for WHERE v = literal on a row without the key v, the row is
\* rejected, except when the literal is the empty string: then it passes.
C10_AbsentColumn ==
  \A lit \in WhereLiterals :
    (data = ExecDataOf(<< Absent >>) /\ query = EqualityQuery(lit) /\ shown.called)
      => (Kept <=> lit.value = << >>)

\* the text x occurs in the text str
Contains(str, x) ==
  \E i \in 1..(Len(str) - Len(x) + 1) : SubSeq(str, i, i + Len(x) - 1) = x

\* the rows of the dataset whose column c satisfies Test, in order
RowsWhereC(Test(_)) ==
  SelectSeq(FlatRows, LAMBDA row : Test(Get(row, colC).s))

\* C11: a LIKE pattern without % is matched against the whole value:
\* WHERE c LIKE 'ab' keeps exactly the rows whose c is ab.
C11_LikeWholeValue ==
  (query = LikeQuery(PatWhole) /\ shown.called)
    => ResultRows = RowsWhereC(LAMBDA text : text = PatWhole)

C13_OtherClausePassesAll ==
  \A clause \in OtherClauses :
    (query = OtherQuery(clause) /\ Executed)
      => /\ error = NoError
         /\ shown.called
         /\ ResultRows = FlatRows

\* three rows under WHERE c IS NOT NULL, one of them with an empty c
C13_Witness ==
  /\ data = ClauseDataOf(<< << "a", "b" >>, << >>, << "b" >> >>)
  /\ query = OtherQuery(ClauseNotNull)
  /\ shown.called
  /\ Len(ResultRows) = 3

\* C14: with a dataset, execution sets an error only for queries that do not
\* begin with SELECT: a query that begins with SELECT yields a result array
\* and no error, however malformed its clauses or its LIKE pattern.
C14_OnlyNonSelectFails ==
  (Executed /\ startsWith(toUpperCase(trim(query)), kwSELECT))
    => error = NoError /\ shown.called

\* C15: writing the keywords of a query in lower case leaves the result as
\* it is with the keywords in upper case.
C15_KeywordCase ==
  \A q \in CaseQueries :
    (query = toLowerCase(q) /\ Executed)
      => /\ error = NoError
         /\ shown.called
         /\ \E upper \in executeQuery(tableInfo(data), q) :
              ~upper.threw /\ ResultRows = upper.value

\* C16: after any call of handleExecuteQuery exactly one of the last result
\* and the last error is populated.
C16_ExactlyOne ==
  [][ handleExecuteQuery => ((error' # NoError) <=> ~shown'.called) ]_vars

\* C16 as amended: a successful call leaves no error and hands its result
\* over; a failed call leaves an error and hands nothing over, so that what
\* an earlier call handed over stays.
C16_OutcomePair ==
  [][ handleExecuteQuery
        => \/ /\ error' = NoError
              /\ shown'.called /\ shown'.ref = "new" /\ shown'.query = query
           \/ /\ error' # NoError
              /\ shown' = shown ]_vars

\* DROP TABLE data failed after SELECT * FROM data had handed its rows over
C16_Witness ==
  /\ query = DropTable
  /\ error = OnlySelectMessage
  /\ shown.called
  /\ shown.ref = "new"
  /\ shown.query = SelectStar

\* C17: handleReset clears the query text and the error and hands the caller
\* the data prop itself with an empty query, never the flattened rows.
C17_ResetHandsOriginal ==
  [][ handleReset
        => /\ query' = << >>
           /\ error' = NoError
           /\ shown' = [ called |-> TRUE, result |-> data,
                         query |-> << >>, ref |-> "data" ]
           /\ data' = data ]_vars

\* the nested dataset was handed back after a query had shown its flattened
\* rows and a later query had failed
C17_Witness ==
  /\ data = DataNested
  /\ query = << >>
  /\ error = NoError
  /\ shown.ref = "data"
  /\ shown.result = DataNested
  /\ shown.result # RowsValue(tableInfo(data).fullData)

\* every outcome of executing the query on the dataset is an error
Raises ==
  \A out \in executeQuery(tableInfo(data), query) : out.threw

\* C18: an error raised while a query is parsed or evaluated is caught in
\* handleExecuteQuery and becomes the error text: onQueryResult is not
\* called, and isExecuting is false when the call ends.
C18_ErrorsCaught ==
  [][ handleExecuteQuery
        => /\ isExecuting' = FALSE
           /\ Raises => /\ error' \in { NoDataMessage, OnlySelectMessage,
                                        RegExpMessage }
                        /\ shown' = shown
                        /\ data' = data ]_vars

\* the LIKE pattern * failed to compile after a result had been handed over
C18_Witness ==
  /\ query = LikeStarQuery
  /\ error = RegExpMessage
  /\ shown.called
  /\ isExecuting = FALSE

\* The fields of a record that are no nested object, in the order they are
\* written, each under the keys on its path joined with _ and with the value
\* the flattened record is to have for it: the text of an array, the value
\* itself otherwise.
RECURSIVE LeavesOf(_, _)
LeavesOf(ms, path) ==
  IF ms = << >> THEN << >>
  ELSE
    LET here == Append(path, Head(ms).k)
        v    == Head(ms).v
    IN  ( IF v.t = "object" THEN LeavesOf(v.o, here)
          ELSE << [ k |-> Join(here, << "_" >>),
                    v |-> IF v.t = "array" THEN Str(ArrayText(v.a)) ELSE v ] >> )
        \o LeavesOf(Tail(ms), path)

\* the record of the dataset and the row SELECT * FROM data gave back for it
TheRecord == data.a[1].o
TheFlatRecord == ResultRows[1]

\* C19: the flattened record has no field that is an object or an array:
\* every nested object is inlined under the keys <parent>_<child>, every
\* array is replaced by the text of its elements joined with ", ", and
\* scalars and null are kept as they are.
C19_FlatRecord ==
  shown.called
    => LET leaves == LeavesOf(TheRecord, << >>)
       IN  /\ \A i \in DOMAIN TheFlatRecord :
                TheFlatRecord[i].v.t \notin { "object", "array" }
           /\ Keys(TheFlatRecord) = { leaves[i].k : i \in DOMAIN leaves }
           /\ \A i \in DOMAIN leaves :
                Get(TheFlatRecord, leaves[i].k) = leaves[i].v

\* the members of the flattened record whose key starts with <field>_, with
\* that prefix taken off
Recovered(flat, field) ==
  LET prefix == field \o << "_" >>
  IN  { [ k |-> SubSeq(flat[i].k, Len(prefix) + 1, Len(flat[i].k)),
          v |-> flat[i].v ] :
          i \in { j \in DOMAIN flat : startsWith(flat[j].k, prefix) } }

\* C20: flattening loses nothing of a nested object: the flattened keys that
\* start with <field>_, with the prefix taken off, are exactly the sub-keys
\* of the nested object with their values (those of an object nested deeper
\* under their own keys joined with _).
C20_Lossless ==
  shown.called
    => \A i \in DOMAIN TheRecord :
         TheRecord[i].v.t = "object"
           => Recovered(TheFlatRecord, TheRecord[i].k)
                = Range(LeavesOf(TheRecord[i].v.o, << >>))

\* the dataset is an array, and its records
IsArray == data.t = "array"
Records == IF IsArray THEN data.a ELSE << >>

\* C21: flattening fails when its input is no mapping (null, an array, a
\* scalar): a dataset with such a record gives an error and no rows.
C21_InvalidInputKind ==
  (Executed /\ \E i \in DOMAIN Records : Records[i].t # "object")
    => (error # NoError /\ ~shown.called)

\* the first record of the dataset, flattened
FirstFlattened == flattenObject(data.a[1], << >>)

\* C22: the columns come from the first flattened record only: one column
\* per key of that record, in the order of its keys, nullable exactly when
\* its value there is null; the keys of later records are no columns.
C22_ColumnsOfFirstRecord ==
  ~memo.isNull
    => LET columns == memo.columns
       IN  /\ Len(columns) = Len(FirstFlattened)
           /\ \A i \in DOMAIN columns :
                /\ columns[i].name = FirstFlattened[i].k
                /\ columns[i].nullable = (FirstFlattened[i].v.t = "null")

\* [{a:1, b:null}, {b:2, c:"x"}] was queried: the columns are a and b, of
\* which b is nullable, and c is none
C22_Witness ==
  /\ data = Arr(<< RecordAB, RecordBC >>)
  /\ shown.called
  /\ memo.columns
       = << [ name |-> keyA, type |-> "number", nullable |-> FALSE ],
            [ name |-> keyB, type |-> "string", nullable |-> TRUE ] >>

\* the dataset is absent or empty
NoDataset == ~IsArray \/ Len(data.a) = 0

\* C23: with a dataset that is no array or is empty there is no schema, and
\* executing a query fails with the no-data error and hands no rows over.
C23_NoDataError ==
  NoDataset
    => /\ memo.isNull
       /\ Executed => (error = NoDataMessage /\ ~shown.called)

\* a query was executed where the data prop is no array
C23_Witness ==
  /\ ~IsArray
  /\ isExecuting = FALSE
  /\ error = NoDataMessage

\* C24: when a new dataset replaces the old one the session is back at its
\* defaults: the query text is empty and the error is cleared.
C24_ReplacedDatasetResets ==
  [][ (\E newData \in SessionData : renderWithData(newData))
        => (query' = << >> /\ error' = NoError) ]_vars

\* the members of a row under the key, at most one
OnlyKey(row, key) == SelectSeq(row, LAMBDA m : m.k = key)

\* the rows a GROUP BY query is to hand over for the select list and the
\* WHERE part: one per filtered row, with the plain column v where the list
\* names it and nothing for the aggregate
Ungrouped(sel, wh) ==
  LET rows == Filtered(FlatRows, wh)
  IN  [ i \in DOMAIN rows |->
          IF sel = SelCount THEN OnlyKey(rows[i], colV) ELSE << >> ]

\* C25: GROUP BY and aggregates are not executed: the query hands over one
\* row per filtered row, not grouped, with no aggregate column.
C25_NoGrouping ==
  \A sel \in GroupSelects, wh \in WhereParts :
    (shown.called /\ query = GroupQuery(sel, wh))
      => ResultRows = Ungrouped(sel, wh)

\* SELECT v, COUNT(*) as count FROM data WHERE v = 2 GROUP BY v handed over
\* two rows {v:2} for the rows A and C of [{n:A,v:2},{n:B,v:10},{n:C,v:2}]
C25_Witness ==
  /\ data = ExecDataOf(<< Num(2), Num(10), Num(2) >>)
  /\ query = GroupQuery(SelCount, WhereV2)
  /\ shown.called
  /\ ResultRows = << << Member(colV, Num(2)) >>, << Member(colV, Num(2)) >> >>

\* C26: executing a query never changes the memoised flattened dataset, its
\* rows, their contents and their order, also after an ORDER BY: the memo
\* stays what the data prop gave, and what a query hands over is what it
\* gives on the rows of the data prop, whatever was executed before.
C26_MemoUntouched ==
  [][ handleExecuteQuery
        => /\ memo' = memo
           /\ memo' = tableInfo(data)
           /\ shown' # shown
                => \E out \in executeQuery(tableInfo(data), query) :
                     /\ ~out.threw
                     /\ shown'.result = RowsValue(out.value) ]_vars

\* the two most populated cities were handed over, sorted by population
\* from the top, and the memoised rows are in the order of the data prop
C26_Witness ==
  /\ data = DataCities
  /\ shown.called
  /\ shown.query = TopTwoQuery
  /\ ResultRows = << DataCities.a[2].o, DataCities.a[3].o >>
  /\ memo.fullData = << DataCities.a[1].o, DataCities.a[2].o, DataCities.a[3].o >>

\* C27: once the page is reset (apiData null, loading false, as handleLogoClick
\* leaves it), every step that is not the start of a new fetch keeps apiData
\* null and loading false, a fetch that was in flight at the click included.
C27_ResetStays ==
  [][ (apiData = NoData /\ ~loading /\ ~handleFetch)
        => (apiData' = NoData /\ ~loading') ]_vars

\* the urls of the history, in its order
HistoryUrls(history) == [ i \in 1..Len(history) |-> history[i].url ]

\* C28: the history holds at most five entries and no url twice; a fetch that
\* resolves puts its url first and leaves the other urls in their order, the
\* url itself taken out and the entries beyond the fifth dropped.
C28_HistoryBounded ==
  [][ /\ Len(endpointHistory') <= 5
      /\ \A i, j \in 1..Len(endpointHistory') :
           endpointHistory'[i].url = endpointHistory'[j].url => i = j
      /\ (\E outcome \in Resolved(inFlight.url) : handleFetchSettled(outcome))
           => LET before == HistoryUrls(endpointHistory)
                  after == HistoryUrls(endpointHistory')
                  others == SelectSeq(before, LAMBDA u : u # inFlight.url)
              IN /\ after # << >>
                 /\ Head(after) = inFlight.url
                 /\ Len(Tail(after)) = Min({ Len(others), 4 })
                 /\ \A i \in 1..Len(Tail(after)) : Tail(after)[i] = others[i]
    ]_vars

\* a full history whose oldest entry is refetched and is first again, the
\* second endpoint fetched being the last one kept
C28_Witness ==
  /\ Len(endpointHistory) = 5
  /\ ~inFlight.pending
  /\ HistoryUrls(endpointHistory) =
       << Url("public", 1), Url("public", 6), Url("public", 5),
          Url("public", 4), Url("public", 3) >>

\* the callbacks of one handleFetch call, by how the call ends
ValidReports ==
  { << "onLoading(true)", "onDataFetch", "onLoading(false)" >>,
    << "onLoading(true)", "onError", "onLoading(false)" >> }

\* C29: a handleFetch call whose url passes validation reports
\* onLoading(true); when fetchApiData settles, by a success, a failure value
\* or a rejection, the call has reported onLoading(true), one of onDataFetch
\* and onError, and onLoading(false), in this order, onDataFetch exactly for a
\* success, and the loading state is false.  A call whose url fails
\* validation reports onError alone and leaves the loading state as it was.
C29_CallbackOrder ==
  [][ /\ (handleFetch /\ ~IsBlank(url) /\ validateUrl(url).ok)
           => /\ reported' = << "onLoading(true)" >>
              /\ loading' /\ inputLoading'
      /\ (handleFetch /\ (IsBlank(url) \/ ~validateUrl(url).ok))
           => /\ reported' = << "onError" >>
              /\ loading' = loading /\ inputLoading' = inputLoading
              /\ inFlight' = inFlight
      /\ \A outcome \in Settled(inFlight.url) :
           handleFetchSettled(outcome)
             => /\ reported = << "onLoading(true)" >>
                /\ reported' \in ValidReports
                /\ (reported'[2] = "onDataFetch")
                     <=> (~outcome.threw /\ outcome.result.success)
                /\ ~loading' /\ ~inputLoading'
    ]_vars

\* a call that was rejected with something that is no Error has reported
\* its three callbacks
C29_Witness ==
  /\ reported = << "onLoading(true)", "onError", "onLoading(false)" >>
  /\ pageError = "An unexpected error occurred"
  /\ ~loading

\* C30: WHERE c = 'ab' AND <condition> on the string column c keeps exactly
\* the rows whose c is ab, whatever the condition after the AND is.
C30_FirstEqualityDecides ==
  \A cond \in LaterConditions :
    (shown.called /\ query = AndQuery(cond))
      => ResultRows =
           SelectSeq(FlatRows, LAMBDA row : Get(row, colC) = Str(<< "a", "b" >>))

=============================================================================
